---- MODULE Spec2Model ----
(***************************************************************************)
(* Model of the PagerDuty incident pipeline: the Incident record           *)
(* (incident_v2.py), the SQLite store (database_v2.py), the SQL metrics    *)
(* (analytics_v2.py) and the remote fetcher (pagerduty_client_v2.py).      *)
(*                                                                         *)
(* Representation.                                                         *)
(*  - A calendar date "YYYY-MM-DD" is its day number (an integer); the     *)
(*    lexicographic order of ISO dates is the order of day numbers.        *)
(*  - A datetime is [date, hour, tz]: wall-clock date and hour and the UTC *)
(*    offset in hours, NoTz for a naive datetime.  Minutes and seconds are *)
(*    not modelled (every sample is on the hour).                          *)
(*  - The ISO-8601 text of a datetime, as stored in SQLite or sent by the  *)
(*    API, is the tuple <<date, hour, suffix>>: its first ten characters   *)
(*    are the date, the suffix is the offset ("" when naive).              *)
(*  - Python None of an Optional[str] is NoneStr, SQL NULL of a TEXT       *)
(*    column is SqlNull; None of an Optional[datetime] is NoneDT and its   *)
(*    SQL NULL is SqlNullTs.                                               *)
(***************************************************************************)
EXTENDS Integers, Sequences, FiniteSets, TLC

\* ------------------------------------------------------------------ bounds
\* most rows the modelled table may hold
MaxRows == 2
\* longest list handed to store_incidents_batch
MaxBatch == 2
\* number of clock advances a behaviour may take
MaxTicks == 2
\* largest `days` argument tried
MaxDays == 2

\* ------------------------------------------------------- values and types
NoTz == 99
NoneStr == "None"
SqlNull == "NULL"
NoneDT == [none |-> TRUE]
SqlNullTs == <<>>

\* the fixed offset timezone(timedelta(hours=-7))
utc_minus_7 == 0 - 7

\* first day number used by the samples
BaseDay == 10

DT(d, h, z) == [date |-> d, hour |-> h, tz |-> z]

\* offset the host's local zone has (used by astimezone on naive values)
HostOffsets == {utc_minus_7, 0}

VARIABLES
    host_tz,     \* UTC offset of the host's local time zone
    clock,       \* current instant, hours since the epoch (UTC)
    ticks,       \* clock advances taken so far
    rows,        \* the incidents table, in rowid order
    written,     \* history: id -> Incident most recently stored under it
    ret          \* the last operation called, its arguments and its result

storeVars == <<host_tz, clock, ticks, rows, written, ret>>

VARIABLES
    columns,     \* the columns of table incidents
    indexes      \* the indexes on table incidents

schemaVars == <<columns, indexes>>

VARIABLES
    pc,            \* position of fetch_incidents_for_date_range
    call,          \* arguments of the running call
    service_ids,   \* the working set of service ids
    window,        \* [since, until] sent to the listing endpoint
    offset,        \* offset of the next listing page
    raw_incidents, \* raw incidents accumulated by the listing
    processed_count, \* raw incidents taken up by the processing loop
    attempt,       \* attempt number inside the running enrichment call
    is_escalated,  \* result of _check_incident_escalation for the incident
    custom_fields, \* result of _get_incident_custom_fields for the incident
    incidents,     \* Incident objects built so far
    trace,         \* requests issued, sleeps taken and values returned
    outcome        \* how the call ended: the list returned or the error

fetchVars == <<pc, call, service_ids, window, offset, raw_incidents,
               processed_count, attempt, is_escalated, custom_fields,
               incidents, trace, outcome>>

vars == <<storeVars, schemaVars, fetchVars>>

\* ------------------------------------------------------------- datetimes
\* the instant a datetime denotes, in hours since the epoch (UTC); a naive
\* value is read as host local time, as datetime.astimezone does
Instant(dt, host) ==
    dt.date * 24 + dt.hour - (IF dt.tz = NoTz THEN host ELSE dt.tz)

\* a conversion that swaps the offset and keeps the wall-clock reading
astimezone_keeping_wall_clock(dt, z, host) == DT(dt.date, dt.hour, z)

\* datetime.astimezone(tz)
astimezone(dt, z, host) ==
    LET local == Instant(dt, host) + z
    IN  DT(local \div 24, local % 24, z)

\* datetime.now(tz)
now(z, clk) == DT((clk + z) \div 24, (clk + z) % 24, z)

\* an isoformat that leaves out the UTC offset
isoformat_without_offset(dt) == <<dt.date, dt.hour, NoTz>>

\* datetime.isoformat()
isoformat(dt) == <<dt.date, dt.hour, dt.tz>>

\* datetime.fromisoformat(text)
fromisoformat(text) == DT(text[1], text[2], text[3])

\* SQL substr(text, 1, 10): the date characters of the stored text
substr_1_10(text) == text[1]

\* SQLite DATE(text): the date of the instant in UTC; a text without offset
\* is taken as UTC already
SqlDate(text) ==
    IF text[3] = NoTz THEN text[1]
    ELSE (text[1] * 24 + text[2] - text[3]) \div 24

\* position of an offset suffix in the byte order of its text:
\* "" < "+00:00" < "+09:00" < "-07:00" ('+' sorts before '-')
SuffixRank(z) == IF z = NoTz THEN 0 ELSE IF z >= 0 THEN 1 + z ELSE 100 - z

\* a <= b for two ISO texts compared as TEXT (byte-wise)
TextLeq(a, b) ==
    \/ a[1] < b[1]
    \/ a[1] = b[1] /\ a[2] < b[2]
    \/ a[1] = b[1] /\ a[2] = b[2] /\ SuffixRank(a[3]) <= SuffixRank(b[3])

\* ---------------------------------------------------------------- Incident
Incident(id, status, svc, created, resolved, esc, ccoe, infra) ==
    [id |-> id, title |-> "t", status |-> status, service_id |-> svc,
     service_name |-> "n", created_at |-> created,
     resolved_at |-> resolved, acknowledged_at |-> NoneDT,
     is_escalated |-> esc, escalation_policy_id |-> NoneStr,
     escalation_policy_name |-> NoneStr, urgency |-> "low",
     priority |-> NoneStr, description |-> NoneStr,
     resolved_by_ccoe |-> ccoe, caused_by_infra |-> infra]

\* Incident.to_dict raises when created_at is None (None.isoformat())
to_dict_raises(inc) == inc.created_at = NoneDT

\* a Python bool in a mapping: bool is a subclass of int, True == 1 and
\* False == 0, and sqlite3 binds it as that integer
PyInt(b) == IF b THEN 1 ELSE 0

\* Incident.to_dict
to_dict(inc) ==
    [id |-> inc.id, title |-> inc.title, status |-> inc.status,
     service_id |-> inc.service_id, service_name |-> inc.service_name,
     created_at |-> isoformat(inc.created_at),
     resolved_at |-> IF inc.resolved_at # NoneDT
                     THEN isoformat(inc.resolved_at) ELSE SqlNullTs,
     acknowledged_at |-> IF inc.acknowledged_at # NoneDT
                         THEN isoformat(inc.acknowledged_at) ELSE SqlNullTs,
     is_escalated |-> PyInt(inc.is_escalated),
     escalation_policy_id |-> inc.escalation_policy_id,
     escalation_policy_name |-> inc.escalation_policy_name,
     urgency |-> inc.urgency, priority |-> inc.priority,
     description |-> inc.description,
     resolved_by_ccoe |-> PyInt(inc.resolved_by_ccoe),
     caused_by_infra |-> inc.caused_by_infra]

\* bool(x) of a stored 0/1
PyBool(x) == x # 0

\* a TEXT value as sqlite3 hands it back: NULL becomes None
FromSqlText(v) == IF v = SqlNull THEN NoneStr ELSE v

\* Incident.from_dict applied to dict(row)
from_dict(data) ==
    [id |-> FromSqlText(data.id), title |-> data.title,
     status |-> data.status,
     service_id |-> data.service_id, service_name |-> data.service_name,
     created_at |-> fromisoformat(data.created_at),
     resolved_at |-> IF data.resolved_at # SqlNullTs
                     THEN fromisoformat(data.resolved_at) ELSE NoneDT,
     acknowledged_at |-> IF data.acknowledged_at # SqlNullTs
                         THEN fromisoformat(data.acknowledged_at) ELSE NoneDT,
     is_escalated |-> PyBool(data.is_escalated),
     escalation_policy_id |-> FromSqlText(data.escalation_policy_id),
     escalation_policy_name |-> FromSqlText(data.escalation_policy_name),
     urgency |-> data.urgency, priority |-> FromSqlText(data.priority),
     description |-> FromSqlText(data.description),
     resolved_by_ccoe |-> PyBool(data.resolved_by_ccoe),
     caused_by_infra |-> FromSqlText(data.caused_by_infra)]

\* a date key taken from created_at without converting it
get_date_str_without_conversion(inc, host) == inc.created_at.date

\* Incident.get_date_str_utc_minus_7
get_date_str_utc_minus_7(inc, host) ==
    astimezone(inc.created_at, utc_minus_7, host).date

\* ------------------------------------------------------- the SQLite table
\* a Python value bound to a TEXT column: None is stored as NULL
ToSqlText(v) == IF v = NoneStr THEN SqlNull ELSE v

\* a Python bool (0/1) bound to a BOOLEAN column is stored as that integer
ToSqlBool(b) == b

\* the 17 values bound by INSERT OR REPLACE INTO incidents (...)
RowOf(data, current_time_utc7) ==
    [id |-> ToSqlText(data.id), title |-> ToSqlText(data.title),
     status |-> ToSqlText(data.status),
     service_id |-> ToSqlText(data.service_id),
     service_name |-> ToSqlText(data.service_name),
     created_at |-> data.created_at, resolved_at |-> data.resolved_at,
     acknowledged_at |-> data.acknowledged_at,
     is_escalated |-> ToSqlBool(data.is_escalated),
     escalation_policy_id |-> ToSqlText(data.escalation_policy_id),
     escalation_policy_name |-> ToSqlText(data.escalation_policy_name),
     urgency |-> ToSqlText(data.urgency),
     priority |-> ToSqlText(data.priority),
     description |-> ToSqlText(data.description),
     resolved_by_ccoe |-> ToSqlBool(data.resolved_by_ccoe),
     caused_by_infra |-> ToSqlText(data.caused_by_infra),
     updated_at |-> current_time_utc7]

\* the NOT NULL columns without a default (CREATE TABLE incidents): a NULL
\* there makes the statement fail with IntegrityError.  `id TEXT PRIMARY
\* KEY` is not among them: SQLite accepts NULL in a non-INTEGER primary key
NotNullViolated(row) ==
    \/ row.title = SqlNull
    \/ row.status = SqlNull
    \/ row.service_id = SqlNull
    \/ row.service_name = SqlNull

\* ------------------------------------------------------------ the schema
\* the columns of CREATE TABLE IF NOT EXISTS incidents
CurrentColumns ==
    {"id", "title", "status", "service_id", "service_name", "created_at",
     "resolved_at", "acknowledged_at", "is_escalated",
     "escalation_policy_id", "escalation_policy_name", "urgency",
     "priority", "description", "resolved_by_ccoe", "caused_by_infra",
     "updated_at"}

\* the four CREATE INDEX IF NOT EXISTS statements, in the order they run,
\* and the columns each one names
IndexNames ==
    <<"idx_incidents_service_created", "idx_incidents_status",
      "idx_incidents_escalated", "idx_incidents_created_date">>

IndexColumns(name) ==
    CASE name = "idx_incidents_service_created" -> {"service_id", "created_at"}
      [] name = "idx_incidents_status" -> {"status"}
      [] name = "idx_incidents_escalated" -> {"is_escalated"}
      [] name = "idx_incidents_created_date" -> {"created_at"}

\* a database file as a record: [columns, indexes, rows, raised]; no
\* columns means the file holds no table incidents
Table(cols, idx, rs) ==
    [columns |-> cols, indexes |-> idx, rows |-> rs, raised |-> FALSE]

\* a CREATE TABLE that replaces the table it finds
CreateTableDroppingExisting(t) ==
    [t EXCEPT !.columns = CurrentColumns, !.rows = <<>>]

\* CREATE TABLE IF NOT EXISTS incidents (...): nothing when the table exists
CreateTableIfNotExists(t) ==
    IF t.columns # {} THEN t ELSE [t EXCEPT !.columns = CurrentColumns]

\* try: ALTER TABLE incidents ADD COLUMN col ... DEFAULT d
\* except sqlite3.OperationalError: pass   (the column exists)
\* A column added takes its default in every existing row.
AddColumn(t, col, default) ==
    IF col \in t.columns THEN t
    ELSE [t EXCEPT !.columns = @ \cup {col},
                   !.rows = [i \in DOMAIN @ |-> @[i] @@ (col :> default)]]

\* CREATE INDEX IF NOT EXISTS name ON incidents(...): OperationalError when
\* a named column is missing; the exception leaves _init_database
CreateIndexIfNotExists(t, name) ==
    IF t.raised \/ name \in t.indexes THEN t
    ELSE IF IndexColumns(name) \subseteq t.columns
    THEN [t EXCEPT !.indexes = @ \cup {name}]
    ELSE [t EXCEPT !.raised = TRUE]

\* IncidentDatabase._init_database: the statements in order; each DDL
\* statement takes effect when it runs, also when a later one raises
_init_database(t) ==
    LET created == CreateTableIfNotExists(t)
        ccoe == AddColumn(created, "resolved_by_ccoe", 0)
        infra == AddColumn(ccoe, "caused_by_infra", SqlNull)
        i1 == CreateIndexIfNotExists(infra, IndexNames[1])
        i2 == CreateIndexIfNotExists(i1, IndexNames[2])
        i3 == CreateIndexIfNotExists(i2, IndexNames[3])
    IN  CreateIndexIfNotExists(i3, IndexNames[4])

\* INSERT OR REPLACE: rows whose primary key equals the new key are deleted,
\* then the row is inserted; NULL keys never conflict (NULL # NULL)
InsertOrReplaceMissingDelete(rs, row) == Append(rs, row)

InsertOrReplace(rs, row) ==
    IF row.id = SqlNull THEN Append(rs, row)
    ELSE Append(SelectSeq(rs, LAMBDA r : r.id # row.id), row)

\* does storing this incident raise (in to_dict or in cursor.execute)
StoreRaises(inc) ==
    \/ to_dict_raises(inc)
    \/ NotNullViolated(RowOf(to_dict(inc), SqlNullTs))

\* the table after one successful INSERT OR REPLACE of the incident
StoreOne(rs, inc, clk) ==
    InsertOrReplace(rs, RowOf(to_dict(inc), isoformat(now(utc_minus_7, clk))))

\* the loop of store_incidents_batch: [rows, stored_count] after the list
RECURSIVE BatchLoop(_, _, _, _)
BatchLoop(rs, list, stored_count, clk) ==
    IF list = <<>> THEN [rows |-> rs, stored_count |-> stored_count]
    ELSE IF StoreRaises(Head(list))
         THEN BatchLoop(rs, Tail(list), stored_count, clk)
         ELSE BatchLoop(StoreOne(rs, Head(list), clk), Tail(list),
                        stored_count + 1, clk)

\* history bookkeeping: the incidents of the list that were stored, by id
RECURSIVE NoteWritten(_, _)
NoteWritten(w, list) ==
    IF list = <<>> THEN w
    ELSE LET inc == Head(list)
         IN  NoteWritten(IF StoreRaises(inc) \/ inc.id = NoneStr THEN w
                         ELSE [w EXCEPT ![inc.id] = inc],
                         Tail(list))

\* --------------------------------------------------------------- queries
\* Python truthiness of an optional string argument (`if service_id:`)
Truthy(v) == v # NoneStr /\ v # ""

\* WHERE substr(created_at, 1, 10) BETWEEN ? AND ? [AND service_id = ?]
RangeWhere(row, start_date, end_date, service_id) ==
    /\ start_date <= substr_1_10(row.created_at)
    /\ substr_1_10(row.created_at) <= end_date
    /\ Truthy(service_id) => row.service_id = service_id

\* the rows the range query selects, in rowid order
RangeRows(rs, start_date, end_date, service_id) ==
    SelectSeq(rs, LAMBDA r : RangeWhere(r, start_date, end_date, service_id))

\* ORDER BY created_at DESC holds of a sequence of rows
OrderedByCreatedDesc(s) ==
    \A i, j \in 1..Len(s) :
        i < j => TextLeq(s[j].created_at, s[i].created_at)

\* every order ORDER BY created_at DESC may return the rows in (the order
\* of rows with equal created_at is not determined by the statement)
OrderByCreatedDesc(s) ==
    {t \in {[i \in 1..Len(s) |-> s[p[i]]] : p \in Permutations(1..Len(s))} :
        OrderedByCreatedDesc(t)}

\* the list comprehension building Incident objects from fetched rows
Incidents(rs) == [i \in 1..Len(rs) |-> from_dict(rs[i])]

\* today's date in UTC-7: datetime.now(self.utc_minus_7).date()
Today(clk) == now(utc_minus_7, clk).date

\* a window that starts two days too late
WindowStartTooLate(clk, days) == Today(clk) - days + 2

\* start_date of the *_last_x_days operations
WindowStart(clk, days) == Today(clk) - days

\* IncidentDatabase.get_incident_by_id: the first row WHERE id = ?
\* (a NULL id equals nothing), rebuilt by from_dict; NoneDT-like None if none
NoIncident == [none |-> TRUE]

get_incident_by_id(rs, incident_id) ==
    LET hit == SelectSeq(rs, LAMBDA r : r.id # SqlNull /\ r.id = incident_id)
    IN  IF hit = <<>> THEN NoIncident ELSE from_dict(hit[1])

\* WHERE DATE(created_at) < ? of delete_incidents_older_than_days
DeleteWhere(row, cutoff_date, host) == SqlDate(row.created_at) < cutoff_date

\* ------------------------------------------------------------ analytics
\* WHERE DATE(created_at) BETWEEN ? AND ? of the metric queries
MetricWhere(row, start_date, end_date) ==
    /\ start_date <= SqlDate(row.created_at)
    /\ SqlDate(row.created_at) <= end_date

\* IncidentAnalytics.get_total_incidents_last_x_days(days).value
get_total_incidents_last_x_days(rs, clk, days) ==
    Len(SelectSeq(rs, LAMBDA r :
            MetricWhere(r, WindowStart(clk, days), Today(clk))))

\* IncidentAnalytics.get_escalated_incidents_last_x_days(days).value
analytics_get_escalated_incidents_last_x_days(rs, clk, days) ==
    Len(SelectSeq(rs, LAMBDA r :
            /\ MetricWhere(r, WindowStart(clk, days), Today(clk))
            /\ r.is_escalated = 1))

\* the rows of the metric window [today - days, today]
WindowRows(rs, clk, days) ==
    SelectSeq(rs, LAMBDA r : MetricWhere(r, WindowStart(clk, days), Today(clk)))

\* the conditions the queries count by:
\*   status IN ('triggered', 'acknowledged'), status = 'resolved',
\*   is_escalated = 1, resolved_by_ccoe = 1,
\*   caused_by_infra IS NOT NULL AND caused_by_infra != ''
SqlCondition(name, r) ==
    CASE name = "triggered" -> r.status \in {"triggered", "acknowledged"}
      [] name = "resolved" -> r.status = "resolved"
      [] name = "escalated" -> r.is_escalated = 1
      [] name = "ccoe_resolved" -> r.resolved_by_ccoe = 1
      [] name = "infrastructure_caused" ->
             r.caused_by_infra # SqlNull /\ r.caused_by_infra # ""

\* SELECT COUNT(*) ... AND <condition>, or SUM(CASE WHEN <condition> ...)
CountWhere(rs, name) == Len(SelectSeq(rs, LAMBDA r : SqlCondition(name, r)))

\* A rate is the fraction [num, den] in lowest terms (den > 0); the
\* rounding of the floating-point division is not modelled.
RECURSIVE GCD(_, _)
GCD(a, b) == IF b = 0 THEN a ELSE GCD(b, a % b)

Fraction(n, d) == [num |-> n \div GCD(n, d), den |-> d \div GCD(n, d)]

\* a < b for two rates
RateLess(a, b) == a.num * b.den < b.num * a.den

\* a percentage computed without the factor 100
RatioNotPercent(escalated, total) ==
    IF total = 0 THEN Fraction(0, 1) ELSE Fraction(escalated, total)

\* (escalated / total) * 100, and 0.0 when total is 0
Percent(escalated, total) ==
    IF total = 0 THEN Fraction(0, 1) ELSE Fraction(escalated * 100, total)

\* the sequences enumerating a finite set without repetition
Enumerations(S) ==
    {f \in [1..Cardinality(S) -> S] :
        \A i, j \in 1..Cardinality(S) : i # j => f[i] # f[j]}

\* the ServiceMetrics built from one group of the window's rows
ServiceMetrics(rs, g) ==
    LET of == SelectSeq(rs, LAMBDA r : r.service_id = g[1]
                                       /\ r.service_name = g[2])
    IN  [service_id |-> g[1], service_name |-> g[2],
         total_incidents |-> Len(of),
         triggered_incidents |-> CountWhere(of, "triggered"),
         resolved_incidents |-> CountWhere(of, "resolved"),
         escalated_incidents |-> CountWhere(of, "escalated"),
         escalation_rate |-> Percent(CountWhere(of, "escalated"), Len(of)),
         ccoe_resolved_incidents |-> CountWhere(of, "ccoe_resolved"),
         infrastructure_caused_incidents |-> CountWhere(of, "infrastructure_caused")]

\* IncidentAnalytics.get_service_metrics_last_x_days(days): one entry for
\* each group of GROUP BY service_id, service_name; every list the query
\* may return (ORDER BY total_incidents DESC leaves ties open)
get_service_metrics_last_x_days(rs, clk, days) ==
    LET w == WindowRows(rs, clk, days)
        groups == {<<w[i].service_id, w[i].service_name>> : i \in DOMAIN w}
    IN  {f \in Enumerations({ServiceMetrics(w, g) : g \in groups}) :
            \A i, j \in DOMAIN f :
                i < j => f[i].total_incidents >= f[j].total_incidents}

\* one row of the daily trend
DailyRow(rs, d) ==
    LET of == SelectSeq(rs, LAMBDA r : SqlDate(r.created_at) = d)
    IN  [date |-> d, total_incidents |-> Len(of),
         triggered_incidents |-> CountWhere(of, "triggered"),
         resolved_incidents |-> CountWhere(of, "resolved"),
         escalated_incidents |-> CountWhere(of, "escalated"),
         escalation_rate |-> Percent(CountWhere(of, "escalated"), Len(of))]

\* IncidentAnalytics.get_daily_incident_trend_last_x_days(days)
\* (GROUP BY DATE(created_at) ORDER BY incident_date DESC)
get_daily_incident_trend_last_x_days(rs, clk, days) ==
    LET w == WindowRows(rs, clk, days)
        dates == {SqlDate(w[i].created_at) : i \in DOMAIN w}
    IN  CHOOSE f \in Enumerations({DailyRow(w, d) : d \in dates}) :
            \A i, j \in DOMAIN f : i < j => f[i].date > f[j].date

\* the sort key compared on the escalated count alone
KeyLessCountOnly(a, b) == a.escalated_incidents < b.escalated_incidents

\* key=lambda x: (x.escalated_incidents, x.escalation_rate): a < b
KeyLess(a, b) ==
    \/ a.escalated_incidents < b.escalated_incidents
    \/ /\ a.escalated_incidents = b.escalated_incidents
       /\ RateLess(a.escalation_rate, b.escalation_rate)

\* sorted(list, key=..., reverse=True): keys non-increasing, elements with
\* equal keys in their original order (the sort is stable)
SortedReverse(list) ==
    LET p == CHOOSE q \in Enumerations(DOMAIN list) :
                 \A i, j \in DOMAIN list :
                     i < j => \/ KeyLess(list[q[j]], list[q[i]])
                              \/ /\ ~KeyLess(list[q[i]], list[q[j]])
                                 /\ q[i] < q[j]
    IN  [i \in DOMAIN list |-> list[p[i]]]

\* IncidentAnalytics.get_top_escalated_services(days, limit), from the
\* list get_service_metrics_last_x_days returned: sorted(...)[:limit]
get_top_escalated_services(service_metrics, limit) ==
    LET n == Len(service_metrics)
        stop == IF limit >= 0
                THEN (IF limit < n THEN limit ELSE n)
                ELSE (IF n + limit > 0 THEN n + limit ELSE 0)
    IN  SubSeq(SortedReverse(service_metrics), 1, stop)

\* ----------------------------------------------------------------- inputs
Ids == {"I1", "I2"}

\* every id a stored record may carry
RecordIds == Ids \cup {"I3"}

ServiceOf(id) == IF id = "I2" THEN "S2" ELSE "S1"

\* records used to exercise writes: every optional field present and
\* absent, both booleans both ways, aware and naive created_at
W1(id) == Incident(id, "triggered", ServiceOf(id), DT(BaseDay, 12, utc_minus_7),
                   NoneDT, FALSE, FALSE, NoneStr)
W2(id) == Incident(id, "resolved", ServiceOf(id), DT(BaseDay, 20, utc_minus_7),
                   DT(BaseDay, 21, utc_minus_7), TRUE, TRUE, "rheos")
W3(id) == Incident(id, "Acknowledged", ServiceOf(id), DT(BaseDay, 12, NoTz),
                   NoneDT, TRUE, FALSE, "")

ValidSamples == {W1(id) : id \in Ids} \cup {W2(id) : id \in Ids}
                    \cup {W3(id) : id \in Ids}

\* a record whose id is None (test_store_incidents_batch_with_errors)
NullIdSample == W1(NoneStr)

\* records that make the INSERT fail: status None, created_at None
BadStatusSample == Incident("I1", NoneStr, "S1", DT(BaseDay, 12, utc_minus_7),
                            NoneDT, FALSE, FALSE, NoneStr)
BadCreatedSample == Incident("I2", "triggered", "S2", NoneDT,
                             NoneDT, FALSE, FALSE, NoneStr)

WriteSamples == ValidSamples \cup {NullIdSample, BadStatusSample,
                                   BadCreatedSample}

\* created_at values around one midnight, in several offsets
CreatedSamples ==
    {DT(BaseDay, 20, utc_minus_7),
     DT(BaseDay - 1, 12, utc_minus_7), DT(BaseDay, 0, 0),
     DT(BaseDay, 5, 9), DT(BaseDay, 12, NoTz)}

DateSamples ==
    {Incident(id, "triggered", ServiceOf(id), c, NoneDT, e, FALSE, NoneStr) :
        id \in Ids, c \in CreatedSamples, e \in BOOLEAN}

\* records as the fetcher builds them: created_at at offset -07:00
Utc7Samples == {inc \in DateSamples : inc.created_at.tz = utc_minus_7}

\* Incident values for the record's own methods: created_at at hours
\* around the day boundaries in several offsets and naive, every
\* combination of present and absent optional fields, both booleans
FieldCreated ==
    {DT(BaseDay, h, z) : h \in {0, 6, 7, 15, 16, 23},
                         z \in {0, 9, utc_minus_7, NoTz}}

FieldSamples ==
    {[Incident("I1", "resolved", "S1", c, r, e[1], e[2], infra)
         EXCEPT !.acknowledged_at = a, !.priority = o,
                !.description = o, !.escalation_policy_id = o,
                !.escalation_policy_name = o] :
        c \in FieldCreated,
        r \in {NoneDT, DT(BaseDay + 1, 1, utc_minus_7)},
        a \in {NoneDT, DT(BaseDay, 23, 0)},
        e \in BOOLEAN \X BOOLEAN,
        infra \in {NoneStr, "rheos"},
        o \in {NoneStr, "", "P1"}}

\* most rows of the table when the breakdowns are computed
MaxMetricRows == 3
\* largest `limit` argument tried
MaxLimit == 2

\* records for the breakdowns: three incidents over two services, the
\* second one of either service and under either name of the first
\* service and created in the evening (UTC-7), the others at noon, each
\* escalated or not
MetricSamples ==
    {[Incident(g[1], "triggered", g[2], DT(BaseDay, g[4], utc_minus_7),
               NoneDT, e, FALSE, NoneStr) EXCEPT !.service_name = g[3]] :
        g \in {<<"I1", "S1", "n", 12>>, <<"I2", "S1", "n", 20>>,
               <<"I2", "S1", "renamed", 20>>, <<"I2", "S2", "n", 20>>,
               <<"I3", "S2", "n", 12>>},
        e \in BOOLEAN}

\* tables an older version of the program left behind: the current
\* columns without some of the eight below, or the table of
\* test_database_migration_columns
OldSchemas ==
    {CurrentColumns \ missing :
        missing \in SUBSET {"status", "service_id", "created_at",
                            "is_escalated", "priority", "updated_at",
                            "resolved_by_ccoe", "caused_by_infra"}}
        \cup {{"id", "title", "status", "service_id", "service_name",
               "created_at"}}

\* a row of the current schema; a table of fewer columns holds its values
\* in those columns
OldRow ==
    [id |-> "I1", title |-> "t", status |-> "resolved", service_id |-> "S1",
     service_name |-> "n", created_at |-> <<BaseDay, 12, utc_minus_7>>,
     resolved_at |-> SqlNullTs, acknowledged_at |-> SqlNullTs,
     is_escalated |-> 1, escalation_policy_id |-> SqlNull,
     escalation_policy_name |-> SqlNull, urgency |-> "low",
     priority |-> SqlNull, description |-> SqlNull, resolved_by_ccoe |-> 1,
     caused_by_infra |-> "rheos", updated_at |-> <<BaseDay, 13, utc_minus_7>>]

\* lists of at most n elements of S
ListsUpTo(S, n) == UNION {[1..k -> S] : k \in 0..n}

\* date arguments of the range query
DateArgs == (BaseDay - 1)..(BaseDay + 1)

ServiceArgs == {NoneStr, "", "S1", "S2"}

DayArgs == 0..MaxDays

\* the clock starts at 22:00 of BaseDay in UTC-7 and advances half a day
ClockStart == BaseDay * 24 + 22 + 7
TickHours == 12

\* ------------------------------------------------------------- operations
\* no operation is running and no result is pending
Idle == [op |-> "idle"]

StoreInit ==
    /\ host_tz \in HostOffsets
    /\ clock = ClockStart
    /\ ticks = 0
    /\ rows = <<>>
    /\ written = [id \in RecordIds |-> NoIncident]
    /\ ret = Idle
    /\ columns = CurrentColumns
    /\ indexes = {IndexNames[i] : i \in DOMAIN IndexNames}

\* time passes
Tick ==
    /\ ret = Idle
    /\ ticks < MaxTicks
    /\ ticks' = ticks + 1
    /\ clock' = clock + TickHours
    /\ UNCHANGED <<host_tz, rows, written, ret>>
    /\ UNCHANGED <<schemaVars, fetchVars>>

\* the command that called the operation ends (main_v2.py runs one command
\* per process); its result is gone, the table stays
Exit ==
    /\ ret # Idle
    /\ ret' = Idle
    /\ UNCHANGED <<host_tz, clock, ticks, rows, written>>
    /\ UNCHANGED <<schemaVars, fetchVars>>

\* Incident.from_dict(x.to_dict())
RoundTrip(x) ==
    /\ ret = Idle
    /\ ~to_dict_raises(x)
    /\ ret' = [op |-> "from_dict", incident |-> x, data |-> to_dict(x),
               value |-> from_dict(to_dict(x))]
    /\ UNCHANGED <<host_tz, clock, ticks, rows, written>>
    /\ UNCHANGED <<schemaVars, fetchVars>>

\* x.get_date_str_utc_minus_7()
DateKey(x) ==
    /\ ret = Idle
    /\ ret' = [op |-> "get_date_str_utc_minus_7", incident |-> x,
               value |-> get_date_str_utc_minus_7(x, host_tz)]
    /\ UNCHANGED <<host_tz, clock, ticks, rows, written>>
    /\ UNCHANGED <<schemaVars, fetchVars>>

\* IncidentDatabase(db_path) on the existing file: __init__ runs _init_database
IncidentDatabase ==
    /\ ret = Idle
    /\ LET t == _init_database(Table(columns, indexes, rows))
       IN  /\ columns' = t.columns
           /\ indexes' = t.indexes
           /\ rows' = t.rows
           /\ ret' = [op |-> "IncidentDatabase", pre |-> rows,
                      pre_columns |-> columns, pre_indexes |-> indexes,
                      raised |-> t.raised]
    /\ UNCHANGED <<host_tz, clock, ticks, written>>
    /\ UNCHANGED fetchVars

\* IncidentDatabase.store_incident(incident), on a table of at most `most`
\* rows
StoreIncident(incident, most) ==
    /\ ret = Idle
    /\ IF StoreRaises(incident)
       THEN /\ ret' = [op |-> "store_incident", incident |-> incident,
                       pre |-> rows, raised |-> TRUE]
            /\ UNCHANGED <<rows, written>>
       ELSE /\ rows' = StoreOne(rows, incident, clock)
            /\ Len(rows') <= most
            /\ written' = NoteWritten(written, <<incident>>)
            /\ ret' = [op |-> "store_incident", incident |-> incident,
                       pre |-> rows, raised |-> FALSE]
    /\ UNCHANGED <<host_tz, clock, ticks>>
    /\ UNCHANGED <<schemaVars, fetchVars>>

store_incident(incident) == StoreIncident(incident, MaxRows)

\* IncidentDatabase.store_incidents_batch(incidents)
store_incidents_batch(batch) ==
    /\ ret = Idle
    /\ LET out == IF batch = <<>>
                  THEN [rows |-> rows, stored_count |-> 0]
                  ELSE BatchLoop(rows, batch, 0, clock)
       IN  /\ rows' = out.rows
           /\ Len(rows') <= MaxRows
           /\ ret' = [op |-> "store_incidents_batch",
                      incidents |-> batch, value |-> out.stored_count,
                      raised |-> FALSE]
    /\ written' = NoteWritten(written, batch)
    /\ UNCHANGED <<host_tz, clock, ticks>>
    /\ UNCHANGED <<schemaVars, fetchVars>>

\* IncidentDatabase.get_incidents_by_date_range(start_date, end_date, service_id)
get_incidents_by_date_range(start_date, end_date, service_id) ==
    /\ ret = Idle
    /\ \E s \in OrderByCreatedDesc(
                    RangeRows(rows, start_date, end_date, service_id)) :
          ret' = [op |-> "get_incidents_by_date_range",
                  start_date |-> start_date, end_date |-> end_date,
                  service_id |-> service_id, value |-> Incidents(s)]
    /\ UNCHANGED <<host_tz, clock, ticks, rows, written>>
    /\ UNCHANGED <<schemaVars, fetchVars>>

\* IncidentDatabase.get_incidents_last_x_days(days, service_id)
get_incidents_last_x_days(days, service_id) ==
    /\ ret = Idle
    /\ \E s \in OrderByCreatedDesc(
                    RangeRows(rows, WindowStart(clock, days), Today(clock),
                              service_id)) :
          ret' = [op |-> "get_incidents_last_x_days", days |-> days,
                  service_id |-> service_id, value |-> Incidents(s)]
    /\ UNCHANGED <<host_tz, clock, ticks, rows, written>>
    /\ UNCHANGED <<schemaVars, fetchVars>>

\* IncidentDatabase.get_incident_by_id(incident_id)
GetIncidentById(incident_id) ==
    /\ ret = Idle
    /\ ret' = [op |-> "get_incident_by_id", incident_id |-> incident_id,
               value |-> get_incident_by_id(rows, incident_id)]
    /\ UNCHANGED <<host_tz, clock, ticks, rows, written>>
    /\ UNCHANGED <<schemaVars, fetchVars>>

\* IncidentDatabase.delete_incidents_older_than_days(days)
delete_incidents_older_than_days(days) ==
    LET cutoff_date == Today(clock) - days
        kept == SelectSeq(rows, LAMBDA r : ~DeleteWhere(r, cutoff_date, host_tz))
    IN  /\ ret = Idle
        /\ rows' = kept
        /\ written' = [id \in RecordIds |->
                          IF get_incident_by_id(kept, id) = NoIncident
                          THEN NoIncident ELSE written[id]]
        /\ ret' = [op |-> "delete_incidents_older_than_days", days |-> days,
                   pre |-> rows, value |-> Len(rows) - Len(kept)]
        /\ UNCHANGED <<host_tz, clock, ticks>>
        /\ UNCHANGED <<schemaVars, fetchVars>>

\* IncidentAnalytics.get_total_incidents_last_x_days(days)
TotalIncidentsLastXDays(days) ==
    /\ ret = Idle
    /\ ret' = [op |-> "get_total_incidents_last_x_days", days |-> days,
               value |-> get_total_incidents_last_x_days(rows, clock, days)]
    /\ UNCHANGED <<host_tz, clock, ticks, rows, written>>
    /\ UNCHANGED <<schemaVars, fetchVars>>

\* IncidentAnalytics.get_escalated_incidents_last_x_days(days)
EscalatedIncidentsLastXDays(days) ==
    /\ ret = Idle
    /\ ret' = [op |-> "get_escalated_incidents_last_x_days", days |-> days,
               value |-> analytics_get_escalated_incidents_last_x_days(
                             rows, clock, days)]
    /\ UNCHANGED <<host_tz, clock, ticks, rows, written>>
    /\ UNCHANGED <<schemaVars, fetchVars>>

\* an operation that only reads the table and the clock
Read(result) ==
    /\ ret = Idle
    /\ ret' = result
    /\ UNCHANGED <<host_tz, clock, ticks, rows, written>>
    /\ UNCHANGED <<schemaVars, fetchVars>>

\* IncidentDatabase.get_escalated_incidents_last_x_days(days):
\* WHERE DATE(created_at) BETWEEN ? AND ? AND is_escalated = 1
\* ORDER BY created_at DESC
get_escalated_incidents_last_x_days(days) ==
    \E s \in OrderByCreatedDesc(
                SelectSeq(WindowRows(rows, clock, days),
                          LAMBDA r : r.is_escalated = 1)) :
        Read([op |-> "db.get_escalated_incidents_last_x_days",
              days |-> days, value |-> Incidents(s)])

\* IncidentDatabase.get_all_service_ids(): SELECT DISTINCT service_id, in
\* any order
GetAllServiceIds ==
    \E ids \in Enumerations({rows[i].service_id : i \in DOMAIN rows}) :
        Read([op |-> "get_all_service_ids", value |-> ids])

\* IncidentDatabase.get_incident_count(): SELECT COUNT(*)
GetIncidentCount ==
    Read([op |-> "get_incident_count", value |-> Len(rows)])

\* IncidentAnalytics.get_<name>_incidents_last_x_days(days) for the
\* triggered, resolved, ccoe_resolved and infrastructure_caused counts
CountMetricLastXDays(name, days) ==
    Read([op |-> "get_count_last_x_days", metric |-> name, days |-> days,
          value |-> CountWhere(WindowRows(rows, clock, days), name)])

\* IncidentAnalytics.get_escalation_rate_last_x_days(days): the total is
\* counted at the present clock, the escalated incidents at a clock read
\* after it, which may already show the next half day
EscalationRateLastXDays(days) ==
    /\ ret = Idle
    /\ \E passed \in {0, TickHours} :
          /\ passed > 0 => ticks < MaxTicks
          /\ clock' = clock + passed
          /\ ticks' = IF passed > 0 THEN ticks + 1 ELSE ticks
          /\ ret' = [op |-> "get_escalation_rate_last_x_days",
                     days |-> days, clock_total |-> clock,
                     clock_escalated |-> clock + passed,
                     value |->
                         Percent(analytics_get_escalated_incidents_last_x_days(
                                     rows, clock + passed, days),
                                 get_total_incidents_last_x_days(
                                     rows, clock, days))]
    /\ UNCHANGED <<host_tz, rows, written>>
    /\ UNCHANGED <<schemaVars, fetchVars>>

\* IncidentAnalytics.get_service_metrics_last_x_days(days)
ServiceMetricsLastXDays(days) ==
    \E list \in get_service_metrics_last_x_days(rows, clock, days) :
        Read([op |-> "get_service_metrics_last_x_days", days |-> days,
              value |-> list])

\* IncidentAnalytics.get_daily_incident_trend_last_x_days(days)
DailyIncidentTrendLastXDays(days) ==
    Read([op |-> "get_daily_incident_trend_last_x_days", days |-> days,
          value |-> get_daily_incident_trend_last_x_days(rows, clock, days)])

\* IncidentAnalytics.get_top_escalated_services(days, limit)
TopEscalatedServices(days, limit) ==
    \E list \in get_service_metrics_last_x_days(rows, clock, days) :
        Read([op |-> "get_top_escalated_services", days |-> days,
              limit |-> limit, service_metrics |-> list,
              value |-> get_top_escalated_services(list, limit)])

\* IncidentAnalytics.get_summary_metrics(days), its seven queries taken at
\* one reading of the clock
SummaryMetrics(days) ==
    \E list \in get_service_metrics_last_x_days(rows, clock, days) :
        Read([op |-> "get_summary_metrics", days |-> days,
              value |->
                [period_days |-> days,
                 total_incidents |->
                     get_total_incidents_last_x_days(rows, clock, days),
                 triggered_incidents |->
                     CountWhere(WindowRows(rows, clock, days), "triggered"),
                 resolved_incidents |->
                     CountWhere(WindowRows(rows, clock, days), "resolved"),
                 escalated_incidents |->
                     analytics_get_escalated_incidents_last_x_days(
                         rows, clock, days),
                 escalation_rate |->
                     Percent(analytics_get_escalated_incidents_last_x_days(
                                 rows, clock, days),
                             get_total_incidents_last_x_days(
                                 rows, clock, days)),
                 services_count |-> Len(list),
                 service_metrics |-> list,
                 daily_trend |->
                     get_daily_incident_trend_last_x_days(rows, clock, days)]])

\* ------------------------------------------------------ the remote fetcher
\* The page size (limit = 100, pagerduty_client_v2.py:161) and the batch
\* size (batch_size = 20, pagerduty_client_v2.py:115) are scaled down so
\* that full pages and lists of several batches occur within the bounds.
PageLimit == 2
BatchSize == 1
\* most raw incidents the API hands out during one fetch
MaxRaw == 2
\* most listing pages requested during one fetch
MaxPages == 2
\* most raw incidents the API hands out when only the listing is followed
MaxListed == 3

\* one attempt too many
max_retries_one_more == 3 + 1

max_retries == 3
retry_delay == 1

\* services of PagerDuty.yaml as load_services_from_config returns them
all_service_ids == <<"S1", "S2">>
service_id_to_name == [sid \in {"S1", "S2"} |->
                          IF sid = "S1" THEN "Service A" ELSE "Service B"]

NoneList == <<"None">>
NoneDate == 0 - 1
ZSuffix == 98

Range(f) == {f[i] : i \in DOMAIN f}

\* [sid for sid in service_ids if sid not in all_service_ids]
\* a validation that reports only the first unknown id
invalid_ids_first_only(ids) ==
    LET unknown == SelectSeq(ids, LAMBDA sid : sid \notin Range(all_service_ids))
    IN  SubSeq(unknown, 1, IF unknown = <<>> THEN 0 ELSE 1)

invalid_ids(ids) == SelectSeq(ids, LAMBDA sid : sid \notin Range(all_service_ids))

\* a raise_for_status that lets client errors through
raise_for_status_raises_5xx_only(status) == 500 <= status /\ status < 600

\* Response.raise_for_status raises for 4xx and 5xx statuses only
raise_for_status_raises(status) == 400 <= status /\ status < 600

\* the request raised or raise_for_status did
Failed(resp) ==
    \/ resp.kind # "http"
    \/ raise_for_status_raises(resp.status)

\* a window that reaches back `days` days from the end date
StartTimeDaysBack(start_date, end_time, days) ==
    IF start_date # NoneDate THEN DT(start_date, 0, utc_minus_7)
    ELSE DT(end_time.date - days, 0, utc_minus_7)

\* since/until: lines 75-98 of fetch_incidents_for_date_range
EndTime(end_date, clk) ==
    IF end_date # NoneDate THEN DT(end_date, 23, utc_minus_7)
    ELSE now(utc_minus_7, clk)

StartTime(start_date, end_time, days) ==
    IF start_date # NoneDate THEN DT(start_date, 0, utc_minus_7)
    ELSE DT(end_time.date - (days - 1), 0, utc_minus_7)

\* text.replace('Z', '+00:00')
ReplaceZ(text) == IF text[3] = ZSuffix THEN <<text[1], text[2], 0>> ELSE text

\* str.lower() and str.strip() on the strings of the samples
lower(str) ==
    CASE str = "Resolution" -> "resolution"
      [] str = "Acknowledged" -> "acknowledged"
      [] str = "CCOE " -> "ccoe "
      [] str = "CCOE" -> "ccoe"
      [] str = "Rheos" -> "rheos"
      [] OTHER -> str

strip(str) ==
    CASE str = "ccoe " -> "ccoe"
      [] str = " " -> ""
      [] OTHER -> str

\* Incident.is_triggered_or_acknowledged
is_triggered_or_acknowledged(inc) ==
    lower(inc.status) \in {"triggered", "acknowledged"}

\* Incident.is_resolved
is_resolved(inc) == lower(inc.status) = "resolved"

\* Incident.is_caused_by_infrastructure:
\* bool(self.caused_by_infra and self.caused_by_infra.strip())
is_caused_by_infrastructure(inc) ==
    Truthy(inc.caused_by_infra) /\ strip(inc.caused_by_infra) # ""

\* the k-th raw incident the API hands out: timestamps with suffix Z, at
\* +09:00 and at -07:00, acknowledgments present and absent
RawIds == <<"Q1", "Q2", "Q3", "Q4">>

Raw(k) ==
    IF k % 2 = 1
    THEN [id |-> RawIds[k], title |-> "t", status |-> "resolved",
          service |-> [id |-> "S1", name |-> "api name"],
          created_at |-> <<BaseDay, 3, ZSuffix>>,
          resolved_at |-> <<BaseDay, 13, 9>>,
          acknowledgments |-> <<[at |-> <<BaseDay, 3, ZSuffix>>]>>]
    ELSE [id |-> RawIds[k], title |-> "t", status |-> "triggered",
          service |-> [id |-> "SZ", name |-> "api name"],
          created_at |-> <<BaseDay, 12, utc_minus_7>>,
          resolved_at |-> SqlNullTs,
          acknowledgments |-> <<>>]

\* a loop that takes the batches up last to first
RECURSIVE BatchOrderReversed(_, _)
BatchOrderReversed(raw, batch_start) ==
    IF batch_start >= Len(raw) THEN <<>>
    ELSE LET batch_end == IF batch_start + BatchSize < Len(raw)
                          THEN batch_start + BatchSize ELSE Len(raw)
         IN  BatchOrderReversed(raw, batch_start + BatchSize)
                 \o SubSeq(raw, batch_start + 1, batch_end)

\* the raw incidents in the order the processing loop takes them up
\* (lines 117-123): batch by batch, batch = raw_incidents[batch_start:batch_end]
RECURSIVE BatchOrder(_, _)
BatchOrder(raw, batch_start) ==
    IF batch_start >= Len(raw) THEN <<>>
    ELSE LET batch_end == IF batch_start + BatchSize < Len(raw)
                          THEN batch_start + BatchSize ELSE Len(raw)
         IN  SubSeq(raw, batch_start + 1, batch_end)
                 \o BatchOrder(raw, batch_start + BatchSize)

\* any log entry has type 'escalate_log_entry'
HasEscalateEntry(log_entries) ==
    \E i \in DOMAIN log_entries : log_entries[i] = "escalate_log_entry"

NoCustomFields == [resolution |-> NoneStr, prelim_root_cause |-> NoneStr]

\* the loop over custom_fields of _get_incident_custom_fields (lines 269-283)
RECURSIVE ExtractCustomFields(_, _)
ExtractCustomFields(fields, result) ==
    IF fields = <<>> THEN result
    ELSE LET field == Head(fields)
             field_name == lower(field.name)
             field_value == field.value
         IN  ExtractCustomFields(Tail(fields),
                IF field_name = "resolution" /\ Truthy(field_value)
                THEN [result EXCEPT !.resolution = strip(lower(field_value))]
                ELSE IF field_name = "prelim_root_cause" /\ Truthy(field_value)
                THEN [result EXCEPT
                         !.prelim_root_cause = strip(lower(field_value))]
                ELSE result)

\* custom_fields.get('resolution').lower() raises AttributeError on None
convert_raises(fields) == fields.resolution = NoneStr

\* _convert_to_incident_object
_convert_to_incident_object(raw, escalated, names, fields, host) ==
    [id |-> raw.id, title |-> raw.title, status |-> raw.status,
     service_id |-> raw.service.id,
     service_name |-> IF raw.service.id \in DOMAIN names
                      THEN names[raw.service.id] ELSE raw.service.name,
     created_at |-> astimezone(fromisoformat(ReplaceZ(raw.created_at)),
                               utc_minus_7, host),
     resolved_at |-> IF raw.resolved_at # SqlNullTs
                     THEN astimezone(fromisoformat(ReplaceZ(raw.resolved_at)),
                                     utc_minus_7, host)
                     ELSE NoneDT,
     acknowledged_at |-> IF raw.acknowledgments # <<>>
                         THEN astimezone(
                                  fromisoformat(
                                      ReplaceZ(raw.acknowledgments[1].at)),
                                  utc_minus_7, host)
                         ELSE NoneDT,
     is_escalated |-> escalated,
     escalation_policy_id |-> NoneStr, escalation_policy_name |-> NoneStr,
     urgency |-> "low", priority |-> NoneStr, description |-> "",
     resolved_by_ccoe |-> lower(fields.resolution) = "ccoe",
     caused_by_infra |-> fields.prelim_root_cause]

\* responses of the API, as requests.get delivers them
Timeout == [kind |-> "timeout"]
ConnectionError == [kind |-> "error"]

\* every HTTP response to the listing carries a JSON object body with n
\* incidents and the flag more
ListResponses ==
    {Timeout} \cup
    {[kind |-> "http", status |-> st, n |-> n, more |-> m] :
        st \in {200, 300, 404, 500}, n \in 0..PageLimit, m \in BOOLEAN}

LogEntriesResponses ==
    {Timeout, ConnectionError,
     [kind |-> "http", status |-> 404, body |-> <<>>],
     [kind |-> "http", status |-> 200, body |-> <<"trigger_log_entry">>],
     [kind |-> "http", status |-> 200,
      body |-> <<"trigger_log_entry", "escalate_log_entry">>]}

CustomFieldsResponses ==
    {Timeout, ConnectionError,
     [kind |-> "http", status |-> 500, body |-> <<>>],
     [kind |-> "http", status |-> 200, body |-> <<>>],
     [kind |-> "http", status |-> 200,
      body |-> <<[name |-> "Resolution", value |-> "CCOE "],
                 [name |-> "prelim_root_cause", value |-> "Rheos"]>>],
     [kind |-> "http", status |-> 200,
      body |-> <<[name |-> "resolution", value |-> "vendor"],
                 [name |-> "prelim_root_cause", value |-> ""]>>]}

\* arguments of fetch_incidents_for_date_range tried
FetchCalls ==
    {[service_ids |-> ids, start_date |-> d[1], end_date |-> d[2],
      days |-> d[3]] :
        ids \in {NoneList, <<>>, <<"S1">>, <<"SX", "S1", "SY">>, <<"S2", "SX">>},
        d \in {<<NoneDate, NoneDate, 1>>, <<NoneDate, NoneDate, 2>>,
               <<BaseDay - 1, BaseDay, 7>>}}

Get(c, key, ok, status, value) ==
    [ev |-> "GET", call |-> c, key |-> key, ok |-> ok, status |-> status,
     value |-> value]
Sleep(c, seconds) ==
    [ev |-> "sleep", call |-> c, key |-> seconds, ok |-> TRUE, status |-> 0,
     value |-> FALSE]
Return(c, key, value) ==
    [ev |-> "return", call |-> c, key |-> key, ok |-> TRUE, status |-> 0,
     value |-> value]

StatusOf(resp) == IF resp.kind = "http" THEN resp.status ELSE 0

Running == [kind |-> "running"]
Returned(list) == [kind |-> "returned", value |-> list]
Raised(error, detail) == [kind |-> "raised", error |-> error, detail |-> detail]

FetchInit ==
    /\ pc = "idle"
    /\ call = [service_ids |-> NoneList, start_date |-> NoneDate,
               end_date |-> NoneDate, days |-> 0]
    /\ service_ids = <<>>
    /\ window = [since |-> SqlNullTs, until |-> SqlNullTs]
    /\ offset = 0
    /\ raw_incidents = <<>>
    /\ processed_count = 0
    /\ attempt = 0
    /\ is_escalated = FALSE
    /\ custom_fields = NoCustomFields
    /\ incidents = <<>>
    /\ trace = <<>>
    /\ outcome = Running

\* fetch_incidents_for_date_range, lines 63-100: validation and date window
FetchStart(args) ==
    /\ pc = "idle"
    /\ call' = args
    /\ LET invalid == IF args.service_ids = NoneList THEN <<>>
                      ELSE invalid_ids(args.service_ids)
           end_time == EndTime(args.end_date, clock)
           start_time == StartTime(args.start_date, end_time, args.days)
       IN  IF invalid # <<>>
           THEN /\ pc' = "raised"
                /\ outcome' = Raised("ValueError", invalid)
                /\ UNCHANGED <<service_ids, window>>
           ELSE /\ pc' = "list"
                /\ service_ids' = IF args.service_ids = NoneList
                                  THEN all_service_ids ELSE args.service_ids
                /\ window' = [since |-> isoformat(start_time),
                              until |-> isoformat(end_time)]
                /\ UNCHANGED outcome
    /\ UNCHANGED <<offset, raw_incidents, processed_count, attempt,
                   is_escalated, custom_fields, incidents, trace>>
    /\ UNCHANGED <<storeVars, schemaVars>>

\* a loop that asks for the next page after every full page
MorePagesIgnoringFlag(n, more) == n >= PageLimit

\* the loop goes on to the next page: the page was not empty (line 180) and
\* not `if not data.get("more", False) or len(incidents) < limit: break`
MorePages(n, more) == n > 0 /\ more /\ n >= PageLimit

\* one iteration of the while loop of _fetch_incidents_from_api, the API
\* holding `most` incidents; when the loop ends, lines 104-118 of the caller
\* up to the first enrichment call
ListPage(resp, most) ==
    /\ pc = "list"
    /\ offset < MaxPages * PageLimit
    /\ resp.kind = "http" => Len(raw_incidents) + resp.n <= most
    /\ LET params == [service_ids |-> service_ids, since |-> window.since,
                      until |-> window.until, limit |-> PageLimit,
                      incidents |-> IF Failed(resp) THEN 0 ELSE resp.n,
                      more |-> ~Failed(resp) /\ resp.more]
           request == Get("incidents", offset, ~Failed(resp), StatusOf(resp),
                          params)
           page == [i \in 1..resp.n |-> Raw(Len(raw_incidents) + i)]
           all_incidents == raw_incidents \o page
       IN  /\ trace' = Append(trace, request)
           /\ IF Failed(resp)
              THEN /\ pc' = "raised"
                   /\ outcome' = Raised("RequestException", <<>>)
                   /\ UNCHANGED <<offset, raw_incidents, processed_count>>
              ELSE IF MorePages(resp.n, resp.more)
              THEN /\ raw_incidents' = all_incidents
                   /\ offset' = offset + PageLimit
                   /\ UNCHANGED <<pc, outcome, processed_count>>
              ELSE /\ raw_incidents' = all_incidents
                   /\ IF BatchOrder(all_incidents, 0) = <<>>
                      THEN /\ pc' = "returned"
                           /\ outcome' = Returned(<<>>)
                           /\ UNCHANGED processed_count
                      ELSE /\ pc' = "escalation"
                           /\ processed_count' = 1
                           /\ UNCHANGED outcome
                   /\ UNCHANGED offset
    /\ UNCHANGED <<call, service_ids, window, attempt, is_escalated,
                   custom_fields, incidents>>
    /\ UNCHANGED <<storeVars, schemaVars>>

\* one attempt of the retry loop of _check_incident_escalation
CheckEscalationAttempt(resp) ==
    /\ pc = "escalation"
    /\ LET incident_id == BatchOrder(raw_incidents, 0)[processed_count].id
           found == HasEscalateEntry(resp.body)
       IN  IF ~Failed(resp)
           THEN /\ trace' = trace \o <<Get("log_entries", incident_id, TRUE, 0,
                                           found),
                                       Return("log_entries", incident_id, found)>>
                /\ is_escalated' = found
                /\ attempt' = 0
                /\ pc' = "custom_fields"
           ELSE IF attempt < max_retries - 1
           THEN /\ trace' = trace \o <<Get("log_entries", incident_id, FALSE, 0,
                                           FALSE),
                                       Sleep("log_entries", retry_delay)>>
                /\ attempt' = attempt + 1
                /\ UNCHANGED <<is_escalated, pc>>
           ELSE /\ trace' = trace \o <<Get("log_entries", incident_id, FALSE, 0,
                                           FALSE),
                                       Return("log_entries", incident_id, FALSE)>>
                /\ is_escalated' = FALSE
                /\ attempt' = 0
                /\ pc' = "custom_fields"
    /\ UNCHANGED <<call, service_ids, window, offset, raw_incidents,
                   processed_count, custom_fields, incidents, outcome>>
    /\ UNCHANGED <<storeVars, schemaVars>>

\* one attempt of the retry loop of _get_incident_custom_fields
CustomFieldsAttempt(resp) ==
    /\ pc = "custom_fields"
    /\ LET incident_id == BatchOrder(raw_incidents, 0)[processed_count].id
           result == ExtractCustomFields(resp.body, NoCustomFields)
       IN  IF ~Failed(resp)
           THEN /\ trace' = trace \o <<Get("custom_fields", incident_id, TRUE, 0,
                                           result),
                                       Return("custom_fields", incident_id,
                                              result)>>
                /\ custom_fields' = result
                /\ attempt' = 0
                /\ pc' = "convert"
           ELSE IF attempt < max_retries - 1
           THEN /\ trace' = trace \o <<Get("custom_fields", incident_id, FALSE,
                                           0, NoCustomFields),
                                       Sleep("custom_fields", retry_delay)>>
                /\ attempt' = attempt + 1
                /\ UNCHANGED <<custom_fields, pc>>
           ELSE /\ trace' = trace \o <<Get("custom_fields", incident_id, FALSE,
                                           0, NoCustomFields),
                                       Return("custom_fields", incident_id,
                                              NoCustomFields)>>
                /\ custom_fields' = NoCustomFields
                /\ attempt' = 0
                /\ pc' = "convert"
    /\ UNCHANGED <<call, service_ids, window, offset, raw_incidents,
                   processed_count, is_escalated, incidents, outcome>>
    /\ UNCHANGED <<storeVars, schemaVars>>

\* lines 136-153: conversion of the enriched incident, end of batch, return
Convert ==
    /\ pc = "convert"
    /\ LET order == BatchOrder(raw_incidents, 0)
           raw_incident == order[processed_count]
           batch_end == IF processed_count % BatchSize = 0
                        THEN processed_count
                        ELSE processed_count + BatchSize
                                 - (processed_count % BatchSize)
       IN  IF convert_raises(custom_fields)
           THEN /\ pc' = "raised"
                /\ outcome' = Raised("AttributeError", <<>>)
                /\ UNCHANGED <<incidents, processed_count, trace>>
           ELSE /\ incidents' = Append(incidents,
                                   _convert_to_incident_object(raw_incident,
                                       is_escalated, service_id_to_name,
                                       custom_fields, host_tz))
                /\ IF processed_count = Len(order)
                   THEN /\ pc' = "returned"
                        /\ outcome' = Returned(incidents')
                        /\ UNCHANGED <<processed_count, trace>>
                   ELSE /\ pc' = "escalation"
                        /\ processed_count' = processed_count + 1
                        /\ trace' = IF processed_count = batch_end
                                    THEN Append(trace, Sleep("batch", 1))
                                    ELSE trace
                        /\ UNCHANGED outcome
    /\ UNCHANGED <<call, service_ids, window, offset, raw_incidents, attempt,
                   is_escalated, custom_fields>>
    /\ UNCHANGED <<storeVars, schemaVars>>

\* ------------------------------------------- the update command, end to end
\* update_incidents_command after the fetch (main_v2.py:91-97, 117-121): an
\* exception leaves through `except Exception` with exit status 1, an empty
\* list ends the command, anything else opens store_incidents_batch (one
\* connection, one transaction: database_v2.py:123-128)
update_incidents_command ==
    /\ pc \in {"returned", "raised"}
    /\ ret = Idle
    /\ IF pc = "raised" \/ incidents = <<>>
       THEN /\ pc' = "exit"
            /\ UNCHANGED ret
       ELSE /\ pc' = "store"
            /\ ret' = [op |-> "store_incidents_batch", incidents |-> incidents,
                       pre |-> rows, pending |-> rows, index |-> 0,
                       value |-> 0, committed |-> FALSE, raised |-> FALSE]
    /\ UNCHANGED <<host_tz, clock, ticks, rows, written>>
    /\ UNCHANGED <<call, service_ids, window, offset, raw_incidents,
                   processed_count, attempt, is_escalated, custom_fields,
                   incidents, trace, outcome>>
    /\ UNCHANGED schemaVars

\* one iteration of the loop of store_incidents_batch (database_v2.py:
\* 130-163): the INSERT OR REPLACE runs inside the open transaction, an
\* exception skips the record
BatchExecute ==
    /\ pc = "store"
    /\ ret.index < Len(ret.incidents)
    /\ LET incident == ret.incidents[ret.index + 1]
       IN  ret' = IF StoreRaises(incident)
                  THEN [ret EXCEPT !.index = @ + 1]
                  ELSE [ret EXCEPT !.index = @ + 1, !.value = @ + 1,
                                   !.pending = StoreOne(@, incident, clock)]
    /\ UNCHANGED <<host_tz, clock, ticks, rows, written>>
    /\ UNCHANGED <<schemaVars, fetchVars>>

\* conn.commit() after the loop (database_v2.py:165-170), then the summary
\* of the command (main_v2.py:99-111)
BatchCommit ==
    /\ pc = "store"
    /\ ret.index = Len(ret.incidents)
    /\ rows' = ret.pending
    /\ ret' = [ret EXCEPT !.committed = TRUE]
    /\ pc' = "exit"
    /\ UNCHANGED <<host_tz, clock, ticks, written>>
    /\ UNCHANGED <<call, service_ids, window, offset, raw_incidents,
                   processed_count, attempt, is_escalated, custom_fields,
                   incidents, trace, outcome>>
    /\ UNCHANGED schemaVars

\* a handler whose exit commits what the open transaction has written
signal_handler_committing ==
    /\ pc \in {"list", "escalation", "custom_fields", "convert", "returned",
               "store"}
    /\ pc' = "exit"
    /\ outcome' = Raised("SystemExit", <<>>)
    /\ IF pc = "store"
       THEN /\ ret' = [ret EXCEPT !.raised = TRUE]
            /\ rows' = ret.pending
       ELSE UNCHANGED <<ret, rows>>
    /\ UNCHANGED <<host_tz, clock, ticks, written>>
    /\ UNCHANGED <<call, service_ids, window, offset, raw_incidents,
                   processed_count, attempt, is_escalated, custom_fields,
                   incidents, trace>>
    /\ UNCHANGED schemaVars

\* signal_handler (main_v2.py:17-21), installed for SIGINT and SIGTERM:
\* sys.exit(0) raises SystemExit wherever the command is; neither
\* `except Exception` nor `except KeyboardInterrupt` catches it, and the
\* connection's context manager rolls an open transaction back
signal_handler ==
    /\ pc \in {"list", "escalation", "custom_fields", "convert", "returned",
               "store"}
    /\ pc' = "exit"
    /\ outcome' = Raised("SystemExit", <<>>)
    /\ ret' = IF pc = "store" THEN [ret EXCEPT !.raised = TRUE] ELSE ret
    /\ UNCHANGED <<host_tz, clock, ticks, rows, written>>
    /\ UNCHANGED <<call, service_ids, window, offset, raw_incidents,
                   processed_count, attempt, is_escalated, custom_fields,
                   incidents, trace>>
    /\ UNCHANGED schemaVars

\* ---------------------------------------------------------- specifications
Init == StoreInit /\ FetchInit

\* the remote fetcher: one call of fetch_incidents_for_date_range
Next ==
    \/ \E args \in FetchCalls : FetchStart(args)
    \/ \E resp \in ListResponses : ListPage(resp, MaxRaw)
    \/ \E resp \in LogEntriesResponses : CheckEscalationAttempt(resp)
    \/ \E resp \in CustomFieldsResponses : CustomFieldsAttempt(resp)
    \/ Convert

Spec == Init /\ [][Next]_vars

\* the store under writes of records of every shape
NextStore ==
    \/ Tick
    \/ Exit
    \/ \E inc \in WriteSamples : store_incident(inc)
    \/ \E batch \in ListsUpTo(WriteSamples, MaxBatch) : store_incidents_batch(batch)
    \/ \E id \in Ids \cup {NoneStr} : GetIncidentById(id)
    \/ \E days \in DayArgs : delete_incidents_older_than_days(days)
    \/ IncidentDatabase
    \/ \E s, e \in DateArgs, svc \in ServiceArgs :
          s <= e /\ get_incidents_by_date_range(s, e, svc)
    \/ \E days \in DayArgs, svc \in ServiceArgs :
          get_incidents_last_x_days(days, svc)
    \/ \E days \in DayArgs : get_escalated_incidents_last_x_days(days)
    \/ GetAllServiceIds
    \/ GetIncidentCount
    \/ \E days \in DayArgs : TotalIncidentsLastXDays(days)
    \/ \E days \in DayArgs,
            name \in {"triggered", "resolved", "ccoe_resolved",
                      "infrastructure_caused"} :
          CountMetricLastXDays(name, days)
    \/ \E days \in DayArgs : EscalatedIncidentsLastXDays(days)
    \/ \E days \in DayArgs : EscalationRateLastXDays(days)
    \/ \E days \in DayArgs : ServiceMetricsLastXDays(days)
    \/ \E days \in DayArgs : DailyIncidentTrendLastXDays(days)
    \/ \E days \in DayArgs : SummaryMetrics(days)
    \/ \E days \in DayArgs, limit \in 0..MaxLimit :
          TopEscalatedServices(days, limit)

SpecStore == Init /\ [][NextStore]_vars

\* the store and the metrics under records created around midnight
NextDates ==
    \/ Tick
    \/ Exit
    \/ \E inc \in DateSamples : store_incident(inc)
    \/ \E s, e \in DateArgs, svc \in ServiceArgs :
          s <= e /\ get_incidents_by_date_range(s, e, svc)
    \/ \E days \in DayArgs, svc \in ServiceArgs :
          get_incidents_last_x_days(days, svc)
    \/ \E days \in DayArgs : TotalIncidentsLastXDays(days)
    \/ \E days \in DayArgs : EscalatedIncidentsLastXDays(days)
    \/ \E days \in DayArgs : delete_incidents_older_than_days(days)

SpecDates == Init /\ [][NextDates]_vars

\* the same operations when every record carries the offset -07:00
NextUtc7 ==
    \/ Tick
    \/ Exit
    \/ \E inc \in Utc7Samples : store_incident(inc)
    \/ \E s, e \in DateArgs, svc \in ServiceArgs :
          s <= e /\ get_incidents_by_date_range(s, e, svc)
    \/ \E days \in DayArgs, svc \in ServiceArgs :
          get_incidents_last_x_days(days, svc)
    \/ \E days \in DayArgs : TotalIncidentsLastXDays(days)
    \/ \E days \in DayArgs : EscalatedIncidentsLastXDays(days)
    \/ \E days \in DayArgs : delete_incidents_older_than_days(days)
    \/ \E days \in DayArgs : get_escalated_incidents_last_x_days(days)

SpecUtc7 == Init /\ [][NextUtc7]_vars

\* the breakdowns of the Metrics Engine over tables of up to three rows
NextMetrics ==
    \/ Exit
    \/ \E inc \in MetricSamples :
          /\ \A i \in DOMAIN rows : rows[i].id # inc.id
          /\ StoreIncident(inc, MaxMetricRows)
    \/ \E days \in DayArgs : EscalationRateLastXDays(days)
    \/ \E days \in DayArgs : ServiceMetricsLastXDays(days)
    \/ \E days \in DayArgs : DailyIncidentTrendLastXDays(days)
    \/ \E days \in DayArgs, limit \in 0..MaxLimit :
          TopEscalatedServices(days, limit)

\* the records carry their own offsets: one host zone is enough
InitMetrics ==
    /\ Init
    /\ host_tz = utc_minus_7

SpecMetrics == InitMetrics /\ [][NextMetrics]_vars

\* opening a database file whose table an older version created
InitSchema ==
    /\ host_tz \in HostOffsets
    /\ clock = ClockStart
    /\ ticks = 0
    /\ written = [id \in RecordIds |-> NoIncident]
    /\ ret = Idle
    /\ columns \in OldSchemas
    /\ indexes = {}
    /\ rows \in {<<>>, <<[c \in columns |-> OldRow[c]]>>}
    /\ FetchInit

NextSchema ==
    \/ IncidentDatabase
    \/ Exit

SpecSchema == InitSchema /\ [][NextSchema]_vars

\* the methods of the Incident record on values of every shape
NextIncident ==
    \/ Exit
    \/ \E x \in FieldSamples : RoundTrip(x)
    \/ \E x \in FieldSamples : DateKey(x)

SpecIncident == Init /\ [][NextIncident]_vars

\* the listing loop alone, started at different times of day; the API has
\* MaxListed incidents to hand out, so a page that is short or empty comes
\* after finitely many full ones
NextPages ==
    \/ pc = "idle" /\ Tick
    \/ \E args \in FetchCalls : FetchStart(args)
    \/ \E resp \in ListResponses : ListPage(resp, MaxListed)

SpecPages == Init /\ [][NextPages]_vars /\ WF_vars(NextPages)

\* one run of `update --days N [--service-id S]` on a database that is empty
\* or holds what an earlier run stored for the same incidents, followed by
\* commands that read the table; the clock stands still.  A service id
\* outside PagerDuty.yaml ends the command before the fetch (main_v2.py:
\* 83-86) and is not among the arguments.
InitUpdate ==
    /\ host_tz \in HostOffsets
    /\ clock = ClockStart
    /\ ticks = 0
    /\ LET earlier(k) ==
               [_convert_to_incident_object(Raw(k), FALSE, service_id_to_name,
                    [resolution |-> "vendor", prelim_root_cause |-> ""],
                    utc_minus_7)
                   EXCEPT !.status = "acknowledged"]
       IN  rows \in {<<>>,
                     BatchLoop(<<>>, <<earlier(1), earlier(2)>>, 0,
                               ClockStart - 24).rows}
    /\ written = [id \in RecordIds |-> NoIncident]
    /\ ret = Idle
    /\ columns = CurrentColumns
    /\ indexes = {IndexNames[i] : i \in DOMAIN IndexNames}
    /\ FetchInit

NextUpdate ==
    \/ \E days \in 1..MaxDays, ids \in {NoneList, <<"S1">>} :
          FetchStart([service_ids |-> ids, start_date |-> NoneDate,
                      end_date |-> NoneDate, days |-> days])
    \/ \E resp \in {r \in ListResponses : r.kind = "http" => r.status = 200} :
          ListPage(resp, MaxRaw)
    \/ \E resp \in {r \in LogEntriesResponses :
                        r.kind = "http" /\ r.status = 200} :
          CheckEscalationAttempt(resp)
    \/ \E resp \in {r \in CustomFieldsResponses :
                        r.kind = "http" /\ r.status = 200} :
          CustomFieldsAttempt(resp)
    \/ Convert
    \/ update_incidents_command
    \/ BatchExecute
    \/ BatchCommit
    \/ signal_handler
    \/ pc = "exit" /\ Exit
    \/ pc = "exit" /\ \E days \in 1..MaxDays :
                          get_incidents_last_x_days(days, NoneStr)

SpecUpdate == InitUpdate /\ [][NextUpdate]_vars

\* ------------------------------------------------------------------ claims
\* positions of the events of the trace
Events == DOMAIN trace

IsGet(i, c) == trace[i].ev = "GET" /\ trace[i].call = c

EnrichmentCalls == {"log_entries", "custom_fields"}

\* the requests of one enrichment call for one incident, in order
AttemptsOf(c, id) ==
    SelectSeq(trace, LAMBDA e : e.ev = "GET" /\ e.call = c /\ e.key = id)

\* the enrichment call made 3 requests for the incident and all failed
FailedAllAttempts(c, id) ==
    /\ Len(AttemptsOf(c, id)) = 3
    /\ \A n \in 1..3 : ~AttemptsOf(c, id)[n].ok

\* C1: whatever the enrichment requests do, the fetch does not raise once
\* the listing succeeded and returns one Incident per listed raw incident;
\* an incident whose escalation-log call failed 3 times has is_escalated
\* false, one whose custom-fields call failed 3 times has resolved_by_ccoe
\* false and no caused_by_infra
C1_EnrichmentFailureNeverFailsFetch ==
    /\ pc = "raised" =>
          \/ trace = <<>>
          \/ IsGet(Len(trace), "incidents") /\ ~trace[Len(trace)].ok
    /\ pc = "returned" =>
          /\ Len(outcome.value) = Len(raw_incidents)
          /\ \A k \in 1..Len(raw_incidents) :
                LET inc == outcome.value[k]
                IN  /\ inc.id = raw_incidents[k].id
                    /\ FailedAllAttempts("log_entries", inc.id)
                          => ~inc.is_escalated
                    /\ FailedAllAttempts("custom_fields", inc.id)
                          => /\ ~inc.resolved_by_ccoe
                             /\ inc.caused_by_infra = NoneStr

\* the value _get_incident_custom_fields returned for the incident
CustomFieldsOf(id) ==
    LET r == SelectSeq(trace, LAMBDA e : e.ev = "return"
                                /\ e.call = "custom_fields" /\ e.key = id)
    IN  r[1].value

\* C2: the conversion succeeds also without a resolution value; the
\* Incident has resolved_by_ccoe true iff the resolution value is 'ccoe'
\* in any case, and caused_by_infra None when there is no prelim_root_cause
C2_ConversionOfCustomFields ==
    /\ ~(pc = "raised" /\ outcome.error = "AttributeError")
    /\ \A k \in 1..Len(incidents) :
          LET fields == CustomFieldsOf(incidents[k].id)
          IN  /\ incidents[k].resolved_by_ccoe
                    = (fields.resolution \in {"ccoe", "CCOE"})
              /\ fields.prelim_root_cause = NoneStr
                    => incidents[k].caused_by_infra = NoneStr

\* a record the store is meant to accept: it has an id and its INSERT
\* does not fail
ValidRecord(inc) == inc.id # NoneStr /\ ~StoreRaises(inc)

\* the last position of the list holding a record with this id
LastWithId(list, id) ==
    CHOOSE i \in DOMAIN list :
        list[i].id = id /\ \A j \in DOMAIN list : list[j].id = id => j <= i

\* C3: store_incidents_batch on a list with records that cannot be stored
\* (a null id among them) does not raise, stores every valid record, stores
\* none of the invalid ones and returns the number of valid records
C3_BatchStoresExactlyTheValid ==
    ret.op = "store_incidents_batch" =>
        LET list == ret.incidents
            valid == {i \in DOMAIN list : ValidRecord(list[i])}
        IN  /\ ~ret.raised
            /\ ret.value = Cardinality(valid)
            /\ \A i \in valid :
                  i = LastWithId(list, list[i].id)
                     => get_incident_by_id(rows, list[i].id) = list[i]
            /\ \A n \in DOMAIN rows : rows[n].id # SqlNull

\* C4: the table holds at most one row per incident id, and for every id
\* get_incident_by_id returns exactly the record most recently stored under
\* it (None when nothing is stored under it or it was deleted)
C4_LastWriteWins ==
    \A id \in Ids :
        /\ Cardinality({n \in DOMAIN rows : rows[n].id = id}) <= 1
        /\ get_incident_by_id(rows, id) = written[id]

\* C4 witness: a record was stored over a different record of the same id
C4_Witness_Overwritten ==
    /\ ret.op = "store_incident"
    /\ ~ret.raised
    /\ get_incident_by_id(ret.pre, ret.incident.id) # NoIncident
    /\ get_incident_by_id(ret.pre, ret.incident.id) # ret.incident
    /\ get_incident_by_id(rows, ret.incident.id) = ret.incident
    /\ ret.incident.created_at.tz = NoTz
    /\ Len(rows) = 2

\* the Incident objects of a result list, as a set
ResultSet(list) == {list[i] : i \in DOMAIN list}

\* the stored records whose UTC-7 date key lies in [start_date, end_date]
\* and that belong to the service when one is given
ExpectedByDateKey(start_date, end_date, service_id) ==
    {from_dict(rows[n]) : n \in
        {m \in DOMAIN rows :
            LET inc == from_dict(rows[m])
                d == get_date_str_utc_minus_7(inc, host_tz)
            IN  /\ start_date <= d
                /\ d <= end_date
                /\ Truthy(service_id) => inc.service_id = service_id}}

\* C5: get_incidents_by_date_range returns exactly the stored records whose
\* UTC-7 date key lies in the inclusive range (and that belong to the
\* service when one is given), whatever offset their created_at carries
C5_RangeQueryByDateKey ==
    ret.op = "get_incidents_by_date_range" =>
        /\ Len(ret.value) = Cardinality(ResultSet(ret.value))
        /\ ResultSet(ret.value)
              = ExpectedByDateKey(ret.start_date, ret.end_date, ret.service_id)

\* C6: the metric counts equal what the store's range query returns over
\* the same window: total = number of records of get_incidents_last_x_days,
\* escalated = number of those with is_escalated
C6_MetricsAgreeWithRangeQuery ==
    LET window_rows(days) ==
            RangeRows(rows, WindowStart(clock, days), Today(clock), NoneStr)
    IN  /\ ret.op = "get_total_incidents_last_x_days" =>
              ret.value = Len(window_rows(ret.days))
        /\ ret.op = "get_escalated_incidents_last_x_days" =>
              ret.value = Len(SelectSeq(window_rows(ret.days),
                                  LAMBDA r : from_dict(r).is_escalated))

\* C10: delete_incidents_older_than_days(d) removes exactly the records whose
\* UTC-7 date key is earlier than today - d, keeps the others unchanged and
\* returns the number removed
C10_DeleteByDateKey ==
    ret.op = "delete_incidents_older_than_days" =>
        LET cutoff == Today(clock) - ret.days
            keep == SelectSeq(ret.pre, LAMBDA r :
                        get_date_str_utc_minus_7(from_dict(r), host_tz) >= cutoff)
        IN  /\ rows = keep
            /\ ret.value = Len(ret.pre) - Len(keep)

\* the number of requests of the same call for the same incident among the
\* first i events
AttemptNo(i) ==
    Cardinality({j \in 1..i : /\ trace[j].ev = "GET"
                              /\ trace[j].call = trace[i].call
                              /\ trace[j].key = trace[i].key})

\* the value an enrichment call returns when every attempt failed
Degraded(c) == IF c = "log_entries" THEN FALSE ELSE NoCustomFields

\* the event at position j is the sleep of the fixed delay inside call c
IsSleep(j, c) ==
    /\ trace[j].ev = "sleep"
    /\ trace[j].call = c
    /\ trace[j].key = 1

\* the event at position j is call c returning value v for incident id
IsReturn(j, c, id, v) ==
    /\ trace[j].ev = "return"
    /\ trace[j].call = c
    /\ trace[j].key = id
    /\ trace[j].value = v

\* C7: each enrichment call issues between 1 and 3 requests for an incident;
\* a further request follows only a failed one, after exactly one sleep of
\* the fixed delay; the call returns at the first successful response with
\* the value derived from it, and after the third failure it returns the
\* degraded value without a sleep and without raising
C7_EnrichmentRetries ==
    \A i \in Events :
        /\ (trace[i].ev = "GET" /\ trace[i].call \in EnrichmentCalls) =>
              /\ AttemptNo(i) <= 3
              /\ AttemptNo(i) > 1 =>
                    /\ IsSleep(i - 1, trace[i].call)
                    /\ trace[i - 2].ev = "GET"
                    /\ trace[i - 2].call = trace[i].call
                    /\ trace[i - 2].key = trace[i].key
                    /\ ~trace[i - 2].ok
              /\ i < Len(trace)
              /\ IF trace[i].ok
                 THEN IsReturn(i + 1, trace[i].call, trace[i].key,
                               trace[i].value)
                 ELSE IF AttemptNo(i) < 3
                 THEN IsSleep(i + 1, trace[i].call)
                 ELSE IsReturn(i + 1, trace[i].call, trace[i].key,
                               Degraded(trace[i].call))
        /\ (trace[i].ev = "sleep" /\ trace[i].call \in EnrichmentCalls) =>
              /\ i > 1
              /\ trace[i - 1].ev = "GET"
              /\ trace[i - 1].call = trace[i].call
              /\ ~trace[i - 1].ok
        /\ (trace[i].ev = "return") =>
              /\ i > 1
              /\ trace[i - 1].ev = "GET"
              /\ trace[i - 1].call = trace[i].call
              /\ trace[i - 1].key = trace[i].key
              /\ AttemptNo(i - 1) >= 1

\* C7 witness: the escalation call of one incident failed three times and
\* returned false, and its custom-fields call succeeded at the second attempt
C7_Witness_ExhaustedThenRetried ==
    \E i \in Events :
        /\ i + 6 <= Len(trace)
        /\ IsGet(i, "log_entries") /\ ~trace[i].ok /\ AttemptNo(i) = 3
        /\ IsReturn(i + 1, "log_entries", trace[i].key, FALSE)
        /\ IsGet(i + 2, "custom_fields") /\ ~trace[i + 2].ok
        /\ trace[i + 3].ev = "sleep"
        /\ IsGet(i + 4, "custom_fields") /\ trace[i + 4].ok
        /\ IsReturn(i + 5, "custom_fields", trace[i].key,
                    [resolution |-> "ccoe", prelim_root_cause |-> "rheos"])
        /\ \E j \in Events : j > i + 5 /\ IsGet(j, "log_entries")

\* the listing request at position i got a response with that status class
ListingAnswered(i, bad) ==
    /\ IsGet(i, "incidents")
    /\ trace[i].status # 0
    /\ bad[trace[i].status]

\* what follows a listing page that makes the fetch fail: the fetch has
\* raised, the page was requested once, nothing was requested after it and
\* no incidents are returned
ListingFailureIsFinal(i) ==
    /\ pc = "raised"
    /\ outcome.kind = "raised"
    /\ i = Len(trace)
    /\ \A j \in Events :
          IsGet(j, "incidents") /\ trace[j].key = trace[i].key => j = i

Elements(list) == {list[i] : i \in DOMAIN list}

\* C9: with service_ids supplied, the call raises the validation error
\* naming exactly the supplied ids missing from the directory, before any
\* request, iff some supplied id is missing; otherwise it proceeds and every
\* listing request carries exactly the supplied ids
C9_ServiceIdValidation ==
    (pc # "idle" /\ call.service_ids # NoneList) =>
        LET missing == Elements(call.service_ids) \ {"S1", "S2"}
        IN  IF missing # {}
            THEN /\ pc = "raised"
                 /\ outcome.kind = "raised"
                 /\ outcome.error = "ValueError"
                 /\ Elements(outcome.detail) = missing
                 /\ Len(outcome.detail) = Cardinality(missing)
                 /\ trace = <<>>
            ELSE /\ ~(outcome.kind = "raised" /\ outcome.error = "ValueError")
                 /\ pc # "list" => trace # <<>>
                 /\ \A i \in Events :
                       IsGet(i, "incidents") =>
                           trace[i].value.service_ids = call.service_ids

\* C9 witness: two of three supplied ids are unknown and are the ones named
C9_Witness_InvalidIdsNamed ==
    /\ pc = "raised"
    /\ call.service_ids = <<"SX", "S1", "SY">>
    /\ outcome.detail = <<"SX", "SY">>

\* C13: for an Incident with a timezone-aware created_at and any
\* combination of present and absent optional fields, from_dict(to_dict(x))
\* equals x field for field, absent timestamps stay absent, and the integers
\* 0 and 1 in the mapping deserialize to false and true
C13_RoundTrip ==
    (ret.op = "from_dict" /\ ret.incident.created_at.tz # NoTz) =>
        /\ ret.value = ret.incident
        /\ ret.incident.resolved_at = NoneDT => ret.data.resolved_at = SqlNullTs
        /\ ret.incident.acknowledged_at = NoneDT
              => ret.value.acknowledged_at = NoneDT
        /\ ret.data.is_escalated \in {0, 1}
        /\ ret.value.is_escalated = (ret.data.is_escalated = 1)
        /\ ret.value.resolved_by_ccoe = (ret.data.resolved_by_ccoe = 1)

\* C13 witness: a record at offset +09:00 without resolved_at, with an
\* acknowledged_at, escalated and not resolved by CCOE, went through
C13_Witness_MixedOptionalFields ==
    /\ ret.op = "from_dict"
    /\ ret.incident.created_at.tz = 9
    /\ ret.incident.resolved_at = NoneDT
    /\ ret.incident.acknowledged_at # NoneDT
    /\ ret.incident.priority = NoneStr
    /\ ret.incident.is_escalated
    /\ ~ret.incident.resolved_by_ccoe
    /\ ret.data.is_escalated = 1
    /\ ret.data.resolved_by_ccoe = 0

\* the UTC date and the UTC hour of a timezone-aware datetime
UtcHours(dt) == dt.date * 24 + dt.hour - dt.tz

\* C14: for a timezone-aware created_at the date key is the UTC date when
\* the UTC time of day is 07:00 or later, and the day before otherwise
C14_DateKeyOfAwareCreatedAt ==
    (ret.op = "get_date_str_utc_minus_7" /\ ret.incident.created_at.tz # NoTz)
        => LET utc == UtcHours(ret.incident.created_at)
           IN  ret.value = IF utc % 24 < 7 THEN (utc \div 24) - 1
                           ELSE utc \div 24

\* C14 witness: 06:00 UTC, carried at offset +09:00 (15:00 local), was
\* keyed to the day before its UTC date
C14_Witness_BeforeSevenUtc ==
    /\ ret.op = "get_date_str_utc_minus_7"
    /\ ret.incident.created_at = DT(BaseDay, 15, 9)
    /\ ret.value = BaseDay - 1

\* C15: for a created_at without timezone information the date key is
\* created_at's own calendar date, on every host
C15_DateKeyOfNaiveCreatedAt ==
    (ret.op = "get_date_str_utc_minus_7" /\ ret.incident.created_at.tz = NoTz)
        => ret.value = ret.incident.created_at.date

\* the four indexes of the current schema
RequiredIndexes == {IndexNames[i] : i \in DOMAIN IndexNames}

\* every row the table held before is still there, with the values it had
\* in the columns it had
KeepsRows(before, cols, after) ==
    /\ Len(after) = Len(before)
    /\ \A i \in DOMAIN before : [c \in cols |-> after[i][c]] = before[i]

\* C12: constructing IncidentDatabase over a table of an older schema does
\* not raise, leaves the table with every current column and the four
\* indexes, keeps every pre-existing column and row, and a second
\* construction changes nothing
C12_MigrationCompletes ==
    ret.op = "IncidentDatabase"
        => /\ ~ret.raised
           /\ columns = CurrentColumns
           /\ indexes = RequiredIndexes
           /\ ret.pre_columns \subseteq columns
           /\ KeepsRows(ret.pre, ret.pre_columns, rows)
           /\ LET again == _init_database(Table(columns, indexes, rows))
              IN  /\ again.columns = columns
                  /\ again.indexes = indexes
                  /\ again.rows = rows

\* the operations that only read the store
ReadOps ==
    {"get_incidents_by_date_range", "get_incidents_last_x_days",
     "db.get_escalated_incidents_last_x_days", "get_incident_by_id",
     "get_all_service_ids", "get_incident_count",
     "get_total_incidents_last_x_days", "get_count_last_x_days",
     "get_escalated_incidents_last_x_days",
     "get_escalation_rate_last_x_days", "get_service_metrics_last_x_days",
     "get_daily_incident_trend_last_x_days", "get_top_escalated_services",
     "get_summary_metrics"}

StoredIdSet(rs) == {rs[i].id : i \in DOMAIN rs}

\* C11: a read operation or a re-construction of IncidentDatabase leaves
\* the stored rows (and the table's columns) exactly as they were, and a
\* step of any operation other than delete_incidents_older_than_days
\* keeps every stored id
C11_OnlyDeleteRemoves ==
    [][/\ (ret = Idle /\ ret'.op \in ReadOps \cup {"IncidentDatabase"})
            => (rows' = rows /\ columns' = columns)
       /\ ret'.op # "delete_incidents_older_than_days"
            => StoredIdSet(rows) \subseteq StoredIdSet(rows')]_vars

\* C11 witness: IncidentDatabase was constructed again over a store of two
\* records, which are both still there
C11_Witness_ReconstructedOverRecords ==
    /\ ret.op = "IncidentDatabase"
    /\ Len(ret.pre) = 2
    /\ rows = ret.pre
    /\ StoredIdSet(rows) = {"I1", "I2"}

\* C20: IncidentDatabase.get_escalated_incidents_last_x_days(n) returns
\* the escalated records of a result of get_incidents_last_x_days(n) on
\* the same store and clock, in that result's order
C20_EscalatedIsFilterOfLastXDays ==
    ret.op = "db.get_escalated_incidents_last_x_days"
        => \E s \in OrderByCreatedDesc(
                        RangeRows(rows, WindowStart(clock, ret.days),
                                  Today(clock), NoneStr)) :
               ret.value = SelectSeq(Incidents(s), LAMBDA x : x.is_escalated)

\* the positions of the rows whose SQL date lies in the metric window of
\* `days` days ending today
InMetricWindow(clk, days) ==
    {i \in DOMAIN rows :
        /\ WindowStart(clk, days) <= SqlDate(rows[i].created_at)
        /\ SqlDate(rows[i].created_at) <= Today(clk)}

RECURSIVE SumOfTotals(_)
SumOfTotals(list) ==
    IF list = <<>> THEN 0
    ELSE Head(list).total_incidents + SumOfTotals(Tail(list))

\* C17: get_service_metrics_last_x_days returns exactly one entry for each
\* service id with an incident in the window and none for another service,
\* ordered by total_incidents non-increasing, each rate being
\* escalated / total x 100, the totals summing to the total of the window
C17_OneEntryPerService ==
    ret.op = "get_service_metrics_last_x_days"
        => LET in_window == InMetricWindow(clock, ret.days)
               services == {rows[i].service_id : i \in in_window}
               v == ret.value
           IN  /\ \A sid \in services :
                      Cardinality({k \in DOMAIN v : v[k].service_id = sid}) = 1
               /\ \A k \in DOMAIN v : v[k].service_id \in services
               /\ \A i, j \in DOMAIN v :
                      i < j => v[i].total_incidents >= v[j].total_incidents
               /\ \A k \in DOMAIN v :
                      v[k].escalation_rate.num * v[k].total_incidents
                          = v[k].escalated_incidents * 100
                                * v[k].escalation_rate.den
               /\ SumOfTotals(v)
                      = get_total_incidents_last_x_days(rows, clock, ret.days)

\* C18: get_daily_incident_trend_last_x_days returns exactly one row for
\* each UTC-7 date key of the window that a stored incident has, in
\* strictly descending date order; a row's total is the number of stored
\* incidents of that date key, its escalated count is at most its total,
\* and the totals sum to the total of the window
C18_OneRowPerDateKey ==
    ret.op = "get_daily_incident_trend_last_x_days"
        => LET key(i) == get_date_str_utc_minus_7(from_dict(rows[i]), host_tz)
               keys == {key(i) : i \in DOMAIN rows}
                          \cap (WindowStart(clock, ret.days)..Today(clock))
               v == ret.value
           IN  /\ {v[k].date : k \in DOMAIN v} = keys
               /\ \A i, j \in DOMAIN v : i < j => v[i].date > v[j].date
               /\ \A k \in DOMAIN v :
                      /\ v[k].total_incidents
                            = Cardinality({i \in DOMAIN rows :
                                              key(i) = v[k].date})
                      /\ v[k].escalated_incidents <= v[k].total_incidents
               /\ SumOfTotals(v)
                      = get_total_incidents_last_x_days(rows, clock, ret.days)

\* the pair (escalated_incidents, escalation_rate) of a is greater than
\* that of b
PairGreater(a, b) ==
    \/ a.escalated_incidents > b.escalated_incidents
    \/ /\ a.escalated_incidents = b.escalated_incidents
       /\ a.escalation_rate.num * b.escalation_rate.den
            > b.escalation_rate.num * a.escalation_rate.den

\* C19: for limit >= 0, get_top_escalated_services returns
\* min(limit, number of entries of the breakdown) of the breakdown's
\* entries, in non-increasing order of (escalated_incidents,
\* escalation_rate), and no entry left out has a greater pair than one
\* returned
C19_TopEscalatedServices ==
    (ret.op = "get_top_escalated_services" /\ ret.limit >= 0)
        => LET listed == {ret.service_metrics[k] : k \in DOMAIN ret.service_metrics}
               v == ret.value
               top == {v[k] : k \in DOMAIN v}
           IN  /\ Len(v) = IF ret.limit < Len(ret.service_metrics)
                           THEN ret.limit ELSE Len(ret.service_metrics)
               /\ top \subseteq listed
               /\ Cardinality(top) = Len(v)
               /\ \A i, j \in DOMAIN v : i < j => ~PairGreater(v[j], v[i])
               /\ \A x \in listed \ top : \A y \in top : ~PairGreater(x, y)

\* C19 witness: of a breakdown listing S1 (two incidents, one escalated)
\* before S2 (one incident, escalated), the top 1 is S2
C19_Witness_HigherRateFirst ==
    /\ ret.op = "get_top_escalated_services"
    /\ ret.limit = 1
    /\ Len(ret.service_metrics) = 2
    /\ ret.service_metrics[1].service_id = "S1"
    /\ ret.service_metrics[1].escalated_incidents = 1
    /\ ret.service_metrics[2].escalated_incidents = 1
    /\ Len(ret.value) = 1
    /\ ret.value[1].service_id = "S2"

\* C21: over the metric window the triggered count is the number of stored
\* records whose is_triggered_or_acknowledged() holds, the resolved count
\* the number whose is_resolved() holds, the infrastructure-caused count
\* the number whose is_caused_by_infrastructure() holds, and no record is
\* both open and resolved
C21_CountsAgreeWithPredicates ==
    ret.op = "get_count_last_x_days"
        => LET counted(P(_)) ==
                   Cardinality({i \in InMetricWindow(clock, ret.days) :
                                   P(from_dict(rows[i]))})
           IN  /\ ret.metric = "triggered"
                    => ret.value = counted(is_triggered_or_acknowledged)
               /\ ret.metric = "resolved" => ret.value = counted(is_resolved)
               /\ ret.metric = "infrastructure_caused"
                    => ret.value = counted(is_caused_by_infrastructure)
               /\ \A i \in DOMAIN rows :
                      ~(/\ is_triggered_or_acknowledged(from_dict(rows[i]))
                        /\ is_resolved(from_dict(rows[i])))

EscalationOf(id) ==
    LET r == SelectSeq(trace, LAMBDA e : e.ev = "return"
                                /\ e.call = "log_entries" /\ e.key = id)
    IN  r[1].value

\* the listed incidents processed one by one in listing order, no batches
ProcessedWithoutBatches ==
    [k \in 1..Len(raw_incidents) |->
        _convert_to_incident_object(raw_incidents[k],
            EscalationOf(raw_incidents[k].id), service_id_to_name,
            CustomFieldsOf(raw_incidents[k].id), host_tz)]

\* the listing has delivered its last page without an error
ListingDone ==
    /\ trace # <<>>
    /\ \A i \in Events : IsGet(i, "incidents") => trace[i].ok

\* the pauses between batches: one after every full batch but the last
BatchPauses ==
    Len(SelectSeq(trace, LAMBDA e : e.ev = "sleep" /\ e.call = "batch"))

\* C23: whatever the number n of raw incidents listed, the fetch returns
\* exactly n Incident records, the k-th built from the k-th raw incident,
\* as processing the list without batches would; the batch size shows
\* only in the pauses
C23_BatchingIsTransparent ==
    (pc \in {"returned", "raised"} /\ ListingDone)
        => /\ pc = "returned"
           /\ outcome.value = ProcessedWithoutBatches
           /\ Len(raw_incidents) > 0
                 => BatchPauses = (Len(raw_incidents) - 1) \div BatchSize

\* the part of C23 that is about batches only: a fetch that returns has
\* built the k-th record from the k-th raw incident
BatchingKeepsOrder ==
    pc = "returned"
        => /\ outcome.value = ProcessedWithoutBatches
           /\ Len(raw_incidents) > 0
                 => BatchPauses = (Len(raw_incidents) - 1) \div BatchSize

\* the instant an API timestamp denotes, in hours since the epoch (UTC);
\* the suffix Z stands for the offset +00:00
TextInstant(text) ==
    text[1] * 24 + text[2] - (IF text[3] = ZSuffix THEN 0 ELSE text[3])

\* the datetime carries -07:00 and denotes the instant of the API text
ConvertedFrom(dt, text) ==
    /\ dt # NoneDT
    /\ dt.tz = utc_minus_7
    /\ Instant(dt, host_tz) = TextInstant(text)

\* the raw incident an Incident of the fetch was built from
RawOf(inc) == CHOOSE r \in Range(raw_incidents) : r.id = inc.id

\* C24: every Incident the fetcher produces has created_at, and resolved_at
\* and acknowledged_at when the API gave them, at offset -07:00 and at the
\* instant of the API timestamp; and the date prefix of the created_at text
\* of every row stored by the update command is the row's UTC-7 date key
C24_FetchedTimestampsInUtc7 ==
    /\ \A k \in DOMAIN incidents :
          LET inc == incidents[k]
              raw == RawOf(inc)
          IN  /\ ConvertedFrom(inc.created_at, raw.created_at)
              /\ raw.resolved_at # SqlNullTs
                    => ConvertedFrom(inc.resolved_at, raw.resolved_at)
              /\ raw.acknowledgments # <<>>
                    => ConvertedFrom(inc.acknowledged_at,
                                     raw.acknowledgments[1].at)
    /\ \A i \in DOMAIN rows :
          substr_1_10(rows[i].created_at)
              = get_date_str_utc_minus_7(from_dict(rows[i]), host_tz)

\* C24 witness: the update has stored Q1, listed with created_at
\* day 10 03:00 Z and resolved_at day 10 13:00 +09:00, as day 9 20:00 -07:00
\* and day 9 21:00 -07:00
C24_Witness_StoredOnEarlierDate ==
    /\ pc = "exit"
    /\ ret # Idle
    /\ ret.op = "store_incidents_batch"
    /\ ret.committed
    /\ \E i \in DOMAIN rows :
          /\ rows[i].id = "Q1"
          /\ rows[i].status = "resolved"
          /\ rows[i].created_at = <<BaseDay - 1, 20, utc_minus_7>>
          /\ rows[i].resolved_at = <<BaseDay - 1, 21, utc_minus_7>>
          /\ rows[i].acknowledged_at = <<BaseDay - 1, 20, utc_minus_7>>

\* a store_incidents_batch call of the update command is under way or has
\* ended
InBatch == ret # Idle /\ ret.op = "store_incidents_batch"

Persisted(inc) ==
    \E i \in DOMAIN rows :
        /\ rows[i].id = inc.id
        /\ rows[i].status = inc.status
        /\ rows[i].created_at = isoformat(inc.created_at)

\* C26: when a signal ends update_incidents_command, every incident that
\* was fetched and enriched before the signal is in the store
C26_ProcessedSavedOnSignal ==
    (pc = "exit" /\ outcome.kind = "raised" /\ outcome.error = "SystemExit")
        => \A k \in DOMAIN incidents : Persisted(incidents[k])

\* the listing requests issued so far, in order
Listing == SelectSeq(trace, LAMBDA e : e.ev = "GET" /\ e.call = "incidents")

\* the incidents the pages of these requests held
RECURSIVE PageSum(_)
PageSum(reqs) ==
    IF reqs = <<>> THEN 0 ELSE Head(reqs).value.incidents + PageSum(Tail(reqs))

\* the page of the request was full and announced more
FullAndMore(req) ==
    req.ok /\ req.value.incidents = PageLimit /\ req.value.more

\* the safety part of C27
PagesInOrder ==
    LET reqs == Listing
        n == Len(reqs)
    IN  /\ \A i \in 1..n : /\ reqs[i].key = (i - 1) * PageLimit
                           /\ reqs[i].value.limit = PageLimit
        /\ \A i \in 2..n : FullAndMore(reqs[i - 1])
        /\ n > 0 => /\ (pc = "list") <=> FullAndMore(reqs[n])
                    /\ (pc = "raised") <=> ~reqs[n].ok
        /\ Len(raw_incidents) = PageSum(reqs)
        /\ \A i \in DOMAIN raw_incidents : raw_incidents[i].id = RawIds[i]

\* C27: the listing requests pages at offsets 0, limit, 2 * limit, ... in
\* that order with the fixed limit; it requests a further page iff the last
\* page was full and the response said more, and stops on an empty page, a
\* short page or more = false; the list it has is the concatenation of the
\* pages in request order, nothing dropped or repeated; and the loop ends
C27_Pagination == []PagesInOrder /\ (pc = "list" ~> pc # "list")

\* C27 witness: a full page with more = true at offset 0, then a short page
\* of one incident at offset `limit` ended the loop with Q1, Q2, Q3
C27_Witness_FullThenShortPage ==
    /\ pc = "escalation"
    /\ Len(Listing) = 2
    /\ FullAndMore(Listing[1])
    /\ Listing[2].key = PageLimit
    /\ Listing[2].ok
    /\ Listing[2].value.incidents = 1
    /\ Len(raw_incidents) = PageLimit + 1
    /\ raw_incidents[PageLimit + 1].id = RawIds[PageLimit + 1]

\* the enrichment requests issued so far, in order
Enrichment ==
    SelectSeq(trace, LAMBDA e : e.ev = "GET" /\ e.call \in EnrichmentCalls)

\* position of the incident in the listing
ListedAt(id) == CHOOSE k \in DOMAIN raw_incidents : raw_incidents[k].id = id

\* request b may directly follow request a: a further attempt of the same
\* call, the custom-fields call of the same incident after its
\* escalation-log call, or the escalation-log call of the next incident
\* after the custom-fields call
MayFollow(a, b) ==
    \/ a.key = b.key /\ a.call = b.call
    \/ a.key = b.key /\ a.call = "log_entries" /\ b.call = "custom_fields"
    \/ /\ ListedAt(b.key) = ListedAt(a.key) + 1
       /\ a.call = "custom_fields" /\ b.call = "log_entries"

WindowSent == pc \in {"list", "escalation", "returned"} \/ Listing # <<>>

\* C29: with both dates given the listing gets since = 00:00 of start_date
\* and until = 23:59 of end_date at -07:00; with neither given, until is the
\* current instant in UTC-7 and since is 00:00 of today - (days - 1), so the
\* window covers exactly `days` calendar dates ending today; and
\* since <= until whenever days >= 1
C29_FetchWindow ==
    WindowSent
        => LET today == (clock - 7) \div 24
               hour == (clock - 7) % 24
           IN  /\ (call.start_date # NoneDate /\ call.end_date # NoneDate)
                     => /\ window.since = <<call.start_date, 0, 0 - 7>>
                        /\ window.until = <<call.end_date, 23, 0 - 7>>
               /\ (call.start_date = NoneDate /\ call.end_date = NoneDate)
                     => /\ window.until = <<today, hour, 0 - 7>>
                        /\ window.since = <<today - (call.days - 1), 0, 0 - 7>>
                        /\ window.until[1] - window.since[1] + 1 = call.days
               /\ call.days >= 1
                     => TextInstant(window.since) <= TextInstant(window.until)
               /\ \A i \in DOMAIN Listing :
                     /\ Listing[i].value.since = window.since
                     /\ Listing[i].value.until = window.until

\* C29 witness: a fetch of the last 2 days started at 10:00 of day 11 in
\* UTC-7 has listed with since = day 10 00:00 and until = day 11 10:00
C29_Witness_TwoDaysEndingNow ==
    /\ call.days = 2
    /\ call.start_date = NoneDate
    /\ clock = ClockStart + TickHours
    /\ Listing # <<>>
    /\ Listing[1].value.since = <<BaseDay, 0, utc_minus_7>>
    /\ Listing[1].value.until = <<BaseDay + 1, 10, utc_minus_7>>

\* the API has answered the listing with incidents created inside the
\* window it was asked for
FetchedInsideWindow ==
    \A k \in DOMAIN raw_incidents :
        /\ TextInstant(window.since) <= TextInstant(raw_incidents[k].created_at)
        /\ TextInstant(raw_incidents[k].created_at) <= TextInstant(window.until)

\* the update command has completed without error
UpdateCompleted ==
    /\ pc = "exit"
    /\ outcome.kind = "returned"

\* C30: with the clock held fixed, after update_incidents_command(days)
\* has completed, get_incidents_last_x_days(days) returns every incident the
\* command fetched: the fetch window lies inside the dates
\* [today - days, today] of the query and the date prefix of every fetched
\* record as stored falls in that range
C30_FetchedThenListed ==
    (/\ UpdateCompleted
     /\ FetchedInsideWindow
     /\ ret.op = "get_incidents_last_x_days"
     /\ ret.days = call.days)
        => LET today == (clock - 7) \div 24
           IN  /\ today - call.days <= window.since[1]
               /\ window.until[1] <= today
               /\ \A k \in DOMAIN incidents :
                     /\ \E i \in DOMAIN ret.value :
                           ret.value[i].id = incidents[k].id
                     /\ \E i \in DOMAIN rows :
                           /\ rows[i].id = incidents[k].id
                           /\ today - call.days <= rows[i].created_at[1]
                           /\ rows[i].created_at[1] <= today

\* C30 witness: the update of the last 2 days fetched and stored Q1
\* (created on day 9 in UTC-7) and Q2 (day 10), and the query for the last
\* 2 days returned both
C30_Witness_BothDaysListed ==
    /\ UpdateCompleted
    /\ FetchedInsideWindow
    /\ call.days = 2
    /\ Len(incidents) = 2
    /\ ret.op = "get_incidents_last_x_days"
    /\ ret.days = 2
    /\ {ret.value[i].id : i \in DOMAIN ret.value} = {"Q1", "Q2"}
    /\ ret.value[1].created_at.date # ret.value[2].created_at.date

====
